---- MODULE Spec2Model ----
(***************************************************************************)
(* A model of things-app-mcp: the date utilities, the filtering loop of    *)
(* simulateRescheduleLogic and the reschedule-distant-todos invocation     *)
(* around it, the Things URL builders, and the update-todo,                *)
(* update-project, add-json and get-todos handlers of the server.          *)
(*                                                                         *)
(* Representation.  A JavaScript string is a sequence of one-character     *)
(* strings, so that slice, split, Number, String and padStart are computed *)
(* character by character.  A JavaScript Date is its time value, counted   *)
(* in minutes since 1970-01-01T00:00Z instead of milliseconds: every Date  *)
(* the program builds is a local midnight, or `now`, in a zone whose       *)
(* offsets are whole minutes, so nothing is lost, and the values fit the   *)
(* model checker's integers.  null is the value Null, which no string     *)
(* equals; an omitted option is a key missing from the options record.     *)
(***************************************************************************)
EXTENDS Integers, Sequences, FiniteSets, TLC

\* null: a sequence that is no string, its one element not being a character
Null == <<"null">>

\* ToBoolean of a string or null: null and the empty string are falsy
Truthy(v) == v # Null /\ v # <<>>

\* An optional number is the set of at most one number: an omitted option
\* (undefined) is the empty set
Omitted == {}

Given(n) == {n}

\* opt ?? default
Coalesce(opt, default) ==
    IF opt = Omitted THEN default ELSE CHOOSE v \in opt : TRUE

----------------------------------------------------------------------------
(* Strings *)

Digits == <<"0", "1", "2", "3", "4", "5", "6", "7", "8", "9">>

DigitValue(c) == (CHOOSE i \in 1..10 : Digits[i] = c) - 1

\* String.prototype.slice(from, to) with 0 <= from <= to (0-based, to exclusive)
Slice(s, from, to) ==
    SubSeq(s, from + 1, IF to > Len(s) THEN Len(s) ELSE to)

\* The index of the first sep in s at or after position k, or Len(s) + 1
IndexFrom(s, sep, k) ==
    LET at == { m \in k..Len(s) : s[m] = sep }
    IN  IF at = {} THEN Len(s) + 1
        ELSE CHOOSE m \in at : \A o \in at : m <= o

\* String.prototype.split(sep) for a one-character separator: the pieces
\* between the places of sep, of which at is the ascending sequence
Split(s, sep) ==
    LET at == SelectSeq([k \in 1..Len(s) |-> k], LAMBDA k : s[k] = sep)
        Place(j) == IF j = 0 THEN 0
                    ELSE IF j > Len(at) THEN Len(s) + 1
                    ELSE at[j]
    IN  [j \in 1..(Len(at) + 1) |-> SubSeq(s, Place(j - 1) + 1, Place(j) - 1)]

\* The concatenation of the strings of parts, in their order
RECURSIVE Flatten(_)
Flatten(parts) ==
    IF Len(parts) = 0 THEN <<>>
    ELSE IF Len(parts) = 1 THEN parts[1]
    ELSE LET half == Len(parts) \div 2
         IN  Flatten(SubSeq(parts, 1, half))
             \o Flatten(SubSeq(parts, half + 1, Len(parts)))

\* Number(s) for a string of decimal digits (the empty string is 0)
RECURSIVE Number(_)
Number(s) ==
    IF Len(s) = 0 THEN 0
    ELSE 10 * Number(SubSeq(s, 1, Len(s) - 1)) + DigitValue(s[Len(s)])

\* String(n) for an integer n >= 0
RECURSIVE String(_)
String(n) ==
    IF n < 10 THEN <<Digits[n + 1]>>
    ELSE String(n \div 10) \o <<Digits[(n % 10) + 1]>>

\* String.prototype.padStart(targetLength, pad) for a one-character pad
RECURSIVE padStart(_, _, _)
padStart(s, targetLength, pad) ==
    IF Len(s) >= targetLength THEN s
    ELSE padStart(<<pad>> \o s, targetLength, pad)

----------------------------------------------------------------------------
(* ECMAScript Date arithmetic (ECMA-262, Date objects), in minutes *)

\* things-url.ts:492 has msPerDay = 1000 * 60 * 60 * 24; per minute this is
msPerDay == 60 * 24

DaysInYear(y) ==
    IF y % 4 # 0 THEN 365
    ELSE IF y % 100 # 0 THEN 366
    ELSE IF y % 400 # 0 THEN 365
    ELSE 366

InLeapYear(y) == DaysInYear(y) = 366

\* The day number of January 1st of year y
DayFromYear(y) ==
    365 * (y - 1970) + ((y - 1969) \div 4) - ((y - 1901) \div 100)
        + ((y - 1601) \div 400)

\* The number of days of year y before its month m (0-based, 0..11)
DaysBeforeMonth(y, m) ==
    LET leap == IF InLeapYear(y) THEN 1 ELSE 0
    IN  CASE m = 0 -> 0
          [] m = 1 -> 31
          [] m = 2 -> 59 + leap
          [] m = 3 -> 90 + leap
          [] m = 4 -> 120 + leap
          [] m = 5 -> 151 + leap
          [] m = 6 -> 181 + leap
          [] m = 7 -> 212 + leap
          [] m = 8 -> 243 + leap
          [] m = 9 -> 273 + leap
          [] m = 10 -> 304 + leap
          [] m = 11 -> 334 + leap
          [] m = 12 -> 365 + leap

Day(t) == t \div msPerDay

TimeWithinDay(t) == t % msPerDay

\* The largest year whose January 1st is at or before day number d
RECURSIVE YearAtOrBefore(_, _)
YearAtOrBefore(y, d) ==
    IF DayFromYear(y) <= d THEN y ELSE YearAtOrBefore(y - 1, d)

YearFromTime(t) == YearAtOrBefore(1970 + (Day(t) \div 365) + 1, Day(t))

DayWithinYear(t) == Day(t) - DayFromYear(YearFromTime(t))

MonthFromTime(t) ==
    LET y == YearFromTime(t)
        d == DayWithinYear(t)
    IN  CHOOSE m \in 0..11 :
            DaysBeforeMonth(y, m) <= d /\ d < DaysBeforeMonth(y, m + 1)

DateFromTime(t) ==
    DayWithinYear(t) - DaysBeforeMonth(YearFromTime(t), MonthFromTime(t)) + 1

\* MakeDay(year, month, date): month is 0-based and may lie outside 0..11,
\* date may lie outside the month (zero and negative dates roll backwards)
MakeDay(year, month, date) ==
    LET ym == year + (month \div 12)
        mn == month % 12
    IN  DayFromYear(ym) + DaysBeforeMonth(ym, mn) + date - 1

MakeDate(day, time) == day * msPerDay + time

----------------------------------------------------------------------------
(* The host's time zone.  A zone is [std, dstFrom, dstTo]: the standard    *)
(* offset from UTC in minutes, and the UTC instants between which one hour *)
(* of daylight saving time is added (dstFrom = dstTo when there is none).  *)

\* LocalTZA(t, true): the offset in force at the UTC instant t
LocalTZAUtc(tz, t) ==
    tz.std + (IF tz.dstFrom <= t /\ t < tz.dstTo THEN 60 ELSE 0)

\* LocalTZA(t, false): the offset for the local time t; a local time that
\* a transition skips or repeats takes the offset before the transition
LocalTZALocal(tz, t) ==
    tz.std + (IF tz.dstFrom <= t - tz.std - 60 /\ t - tz.std - 60 < tz.dstTo
              THEN 60 ELSE 0)

LocalTime(tz, t) == t + LocalTZAUtc(tz, t)

UTC(tz, t) == t - LocalTZALocal(tz, t)

\* new Date(year, monthIndex, day): local midnight of that calendar day
NewDate(tz, year, monthIndex, day) ==
    UTC(tz, MakeDate(MakeDay(year, monthIndex, day), 0))

getFullYear(tz, date) == YearFromTime(LocalTime(tz, date))

getMonth(tz, date) == MonthFromTime(LocalTime(tz, date))

getDate(tz, date) == DateFromTime(LocalTime(tz, date))

getTime(date) == date

\* Date.prototype.setDate(dt): the same local time of day on day dt of the
\* date's local month
setDate(tz, date, dt) ==
    LET t == LocalTime(tz, date)
    IN  UTC(tz, MakeDate(MakeDay(YearFromTime(t), MonthFromTime(t), dt),
                         TimeWithinDay(t)))

----------------------------------------------------------------------------
(* Date utilities, things-url.ts:478-494 *)

\* A slip: the date is formatted from its UTC fields, as toISOString does
formatDateUTC(tz, date) ==
    LET utc == [std |-> 0, dstFrom |-> 0, dstTo |-> 0]
        y == getFullYear(utc, date)
        m == padStart(String(getMonth(utc, date) + 1), 2, "0")
        d == padStart(String(getDate(utc, date)), 2, "0")
    IN  String(y) \o <<"-">> \o m \o <<"-">> \o d

formatDateLocal(tz, date) ==
    LET y == getFullYear(tz, date)
        m == padStart(String(getMonth(tz, date) + 1), 2, "0")
        d == padStart(String(getDate(tz, date)), 2, "0")
    IN  String(y) \o <<"-">> \o m \o <<"-">> \o d

parseDateOnly(tz, isoString) ==
    LET datePart == Slice(isoString, 0, 10)
        parts == Split(datePart, "-")
        year == Number(parts[1])
        month == Number(parts[2])
        day == Number(parts[3])
    IN  NewDate(tz, year, month - 1, day)

daysBetween(from, to) == (getTime(to) - getTime(from)) \div msPerDay

\* Date.prototype.toISOString(): the UTC fields as YYYY-MM-DDTHH:mm:ss.sssZ
\* (the Dates modelled are whole minutes)
toISOString(date) ==
    LET utc == [std |-> 0, dstFrom |-> 0, dstTo |-> 0]
        y == getFullYear(utc, date)
        m == padStart(String(getMonth(utc, date) + 1), 2, "0")
        d == padStart(String(getDate(utc, date)), 2, "0")
        hh == padStart(String(TimeWithinDay(date) \div 60), 2, "0")
        mm == padStart(String(TimeWithinDay(date) % 60), 2, "0")
    IN  String(y) \o <<"-">> \o m \o <<"-">> \o d \o <<"T">> \o hh \o <<":">>
            \o mm \o <<":", "0", "0", ".", "0", "0", "0", "Z">>

----------------------------------------------------------------------------
(* Bounds of the inputs *)

\* The longest Today list
MaxTodos == 2

\* Deadlines lie from MaxOverdue days before today to MaxDaysOut days after
MaxOverdue == 1

MaxDaysOut == 9

\* Activation dates lie within MaxActShift days of today
MaxActShift == 1

\* Explicit daysThreshold and bufferDays options are 0..MaxThreshold and
\* 0..MaxBuffer, next to the omitted option and the buffer of test 3j
MaxThreshold == 1

MaxBuffer == 1

GuardBuffer == 8

----------------------------------------------------------------------------
(* Inputs: the hosts the program runs on, the options and the Today lists *)

NoDST(std) == [std |-> std, dstFrom |-> 0, dstTo |-> 0]

\* US Eastern time in 2026: daylight saving time from March 8th, 02:00 EST
\* to November 1st, 02:00 EDT
USEastern2026 ==
    [std |-> -300,
     dstFrom |-> MakeDate(MakeDay(2026, 2, 8), 7 * 60),
     dstTo |-> MakeDate(MakeDay(2026, 10, 1), 6 * 60)]

\* A host is its time zone, its clock (what new Date() returns) and, for
\* the record, the calendar day <<year, month, day>> its user reads off it:
\* 2026-02-28 00:00 in Seoul (the NOW of the tests), 2026-02-28 20:15 in
\* New York (March 1st in UTC), 2025-12-28 09:00 UTC (the year ends within
\* the deadlines), 2024-02-24 23:30 in Seoul (a leap day within them)
Hosts ==
    { [tz |-> NoDST(540), clock |-> NewDate(NoDST(540), 2026, 1, 28),
       today |-> <<2026, 2, 28>>],
      [tz |-> USEastern2026,
       clock |-> NewDate(USEastern2026, 2026, 1, 28) + 20 * 60 + 15,
       today |-> <<2026, 2, 28>>],
      [tz |-> NoDST(0), clock |-> NewDate(NoDST(0), 2025, 11, 28) + 9 * 60,
       today |-> <<2025, 12, 28>>],
      [tz |-> NoDST(540),
       clock |-> NewDate(NoDST(540), 2024, 1, 24) + 23 * 60 + 30,
       today |-> <<2024, 2, 24>>] }

\* The day number of the host's local calendar day
HostDay(host) == Day(LocalTime(host.tz, host.clock))

\* The time-of-day and zone part of an ISO-8601 string
MidnightZ ==
    <<"T", "0", "0", ":", "0", "0", ":", "0", "0", ".", "0", "0", "0", "Z">>

AfternoonPlus9 ==
    <<"T", "1", "4", ":", "3", "0", ":", "0", "0", "+", "0", "9", ":", "0", "0">>

\* "YYYY-MM-DD" of a day number, followed by suffix
IsoString(day, suffix) ==
    formatDateLocal(NoDST(0), MakeDate(day, 0)) \o suffix

DueDates(host) ==
    {Null} \cup { IsoString(HostDay(host) + k, MidnightZ) :
                    k \in (0 - MaxOverdue)..MaxDaysOut }

ActivationDates(host) ==
    {Null, IsoString(HostDay(host), AfternoonPlus9)}
    \cup { IsoString(HostDay(host) + k, MidnightZ) :
             k \in (0 - MaxActShift)..MaxActShift }

Statuses == {"open", "completed", "canceled"}

\* What the Today list says of one to-do, but for its id and name
TodoFields(host) ==
    [status : Statuses, dueDate : DueDates(host),
     activationDate : ActivationDates(host)]

\* The six to-dos of test 3l, relative to the host's today: a far deadline,
\* a close one, none, a completed to-do, one placed in Today on purpose,
\* and a far deadline (as a bare date) with yesterday's activation date
MixedFields(host) ==
    LET today == HostDay(host)
        far == IsoString(today + MaxDaysOut, MidnightZ)
    IN  { [status |-> "open", dueDate |-> far, activationDate |-> Null],
          [status |-> "open", dueDate |-> IsoString(today + 1, MidnightZ),
           activationDate |-> Null],
          [status |-> "open", dueDate |-> Null, activationDate |-> Null],
          [status |-> "completed", dueDate |-> far, activationDate |-> Null],
          [status |-> "open", dueDate |-> far,
           activationDate |-> IsoString(today, MidnightZ)],
          [status |-> "open", dueDate |-> IsoString(today + MaxDaysOut - 1, <<>>),
           activationDate |-> IsoString(today - 1, AfternoonPlus9)] }

\* The to-do at position k of the list: ids are unique within the list
Todo(k, fields) ==
    [id |-> <<"t">> \o String(k), name |-> <<"N">> \o String(k),
     status |-> fields.status, dueDate |-> fields.dueDate,
     activationDate |-> fields.activationDate]

\* The Today lists: the empty list, every list of one to-do, and the lists
\* of 2..MaxTodos to-dos of test 3l
TodayLists(host) ==
    {<<>>}
    \cup { <<Todo(1, f)>> : f \in TodoFields(host) }
    \cup UNION { { [k \in 1..n |-> Todo(k, fs[k])] :
                   fs \in [1..n -> MixedFields(host)] } : n \in 2..MaxTodos }

\* The options of a call: each of daysThreshold and bufferDays given or not
OptionsInputs ==
    [daysThreshold : {Omitted} \cup {Given(n) : n \in 0..MaxThreshold},
     bufferDays : {Omitted}
                  \cup {Given(n) : n \in (0..MaxBuffer) \cup {GuardBuffer}}]

----------------------------------------------------------------------------
(* State *)

VARIABLES
    tz,              \* the host's time zone
    clock,           \* the host's clock: the result of new Date()
    todos,           \* simulateRescheduleLogic's argument: the Today list
    options,         \* its options argument
    i,               \* the position in todos of the loop's next to-do
    rescheduled,     \* the decisions pushed so far
    skippedSummary,  \* skip reason -> count, a key per reason met so far
    pc,              \* "idle" before the engine is entered, "loop" within
                     \* its for loop, "done" once it has returned
    result,          \* the value returned, <<>> before the return
    envToken,        \* process.env.THINGS_AUTH_TOKEN, as an optional string
    args,            \* the arguments of the reschedule-distant-todos call
    hpc,             \* where the tool's handler is
    reads,           \* the number of Today-list reads issued
    writes,          \* the URLs handed to openThingsURL, in order
    response,        \* the handler's result, <<>> before it responds
    log              \* the external calls and their outcomes, in order

engineVars ==
    <<tz, clock, todos, options, i, rescheduled, skippedSummary, pc, result>>

toolVars == <<envToken, args, hpc, reads, writes, response, log>>

vars == <<engineVars, toolVars>>

----------------------------------------------------------------------------
(* simulateRescheduleLogic, things-url.ts:665-735 *)

daysThreshold == Coalesce(options.daysThreshold, 7)

bufferDays == Coalesce(options.bufferDays, 3)

\* options.now ?? new Date(): the calls modelled leave options.now out
now == clock

todayMidnight ==
    NewDate(tz, getFullYear(tz, now), getMonth(tz, now), getDate(tz, now))

todayStr == formatDateLocal(tz, todayMidnight)

\* The skip reasons.  A reason is a tuple so that the threshold's label can
\* hold the number the template literal interpolates.
StatusReason == <<"status is not open">>

\* A slip: the label of the status filter pasted into the deadline filter
DeadlineReasonCopied == <<"status is not open">>

DeadlineReason == <<"no deadline set">>

ExplicitTodayReason ==
    <<"explicitly scheduled for today (activationDate = today)">>

ThresholdReason(n) == <<"deadline within threshold (< ", n, " days)">>

NoMoveReason == <<"computed new date would not move to-do out of Today">>

\* A slip: the count is set to 1 instead of incremented
skipWithOverwrite(summary, reason) ==
    IF reason \in DOMAIN summary
    THEN [summary EXCEPT ![reason] = 1]
    ELSE summary @@ (reason :> 1)

\* A slip: the status label is made a key of the report as soon as anything
\* is skipped, with a count of 0 when no to-do was skipped for it
skipWithZeroEntry(summary, reason) ==
    LET counted == IF reason \in DOMAIN summary
                   THEN [summary EXCEPT ![reason] = @ + 1]
                   ELSE summary @@ (reason :> 1)
    IN  IF StatusReason \in DOMAIN counted
        THEN counted
        ELSE counted @@ (StatusReason :> 0)

\* skippedSummary[reason] = (skippedSummary[reason] ?? 0) + 1
skipWith(summary, reason) ==
    IF reason \in DOMAIN summary
    THEN [summary EXCEPT ![reason] = @ + 1]
    ELSE summary @@ (reason :> 1)

\* The conditions of the loop body
\* A slip: only completed to-dos are filtered, canceled ones pass
statusOnlyCompleted(todo) == todo.status = "completed"

statusNotOpen(todo) == todo.status # "open"

noDeadline(todo) == ~Truthy(todo.dueDate)

deadlineDate(todo) == parseDateOnly(tz, todo.dueDate)

daysUntilDue(todo) == daysBetween(todayMidnight, deadlineDate(todo))

\* A slip: <= for <
withinThresholdInclusive(todo) == daysUntilDue(todo) <= daysThreshold

withinThreshold(todo) == daysUntilDue(todo) < daysThreshold

activationStr(todo) ==
    formatDateLocal(tz, parseDateOnly(tz, todo.activationDate))

\* A slip: the activation day rendered in UTC (toISOString().slice(0, 10))
\* and compared with the local todayStr
explicitTodayUTC(todo) ==
    /\ Truthy(todo.activationDate)
    /\ formatDateLocal(NoDST(0), parseDateOnly(tz, todo.activationDate))
           = todayStr

\* A slip: the explicit-today test placed after the threshold filter
explicitTodayAfterThreshold(todo) ==
    /\ Truthy(todo.activationDate)
    /\ activationStr(todo) = todayStr
    /\ ~withinThreshold(todo)

explicitToday(todo) ==
    Truthy(todo.activationDate) /\ activationStr(todo) = todayStr

\* A slip: the buffer subtracted as a time span,
\* new Date(deadlineDate.getTime() - bufferDays * msPerDay)
newWhenDateByTimeSpan(todo) ==
    getTime(deadlineDate(todo)) - bufferDays * msPerDay

\* A slip: the buffer counted forward from today instead of back from the
\* deadline
newWhenDateFromToday(todo) ==
    setDate(tz, todayMidnight, getDate(tz, todayMidnight) + bufferDays)

\* new Date(deadlineDate), then setDate(getDate() - bufferDays)
newWhenDate(todo) ==
    setDate(tz, deadlineDate(todo),
            getDate(tz, deadlineDate(todo)) - bufferDays)

\* A slip: < for <=
wouldNotMoveStrict(todo) ==
    getTime(newWhenDate(todo)) < getTime(todayMidnight)

\* A slip: the guard left out
wouldNotMoveNever(todo) == FALSE

wouldNotMove(todo) == getTime(newWhenDate(todo)) <= getTime(todayMidnight)

newWhenStr(todo) == formatDateLocal(tz, newWhenDate(todo))

oldWhen(todo) ==
    IF Truthy(todo.activationDate) THEN activationStr(todo) ELSE Null

\* The entry pushed onto rescheduled
Decision(todo) ==
    [id |-> todo.id, name |-> todo.name, oldWhen |-> oldWhen(todo),
     newWhen |-> newWhenStr(todo), dueDate |-> Slice(todo.dueDate, 0, 10),
     daysUntilDue |-> daysUntilDue(todo)]

\* A direct call of simulateRescheduleLogic, at the head of its loop (lines
\* 670-678); no tool invocation is under way
EngineInit ==
    /\ \E host \in Hosts :
            /\ tz = host.tz
            /\ clock = host.clock
            /\ todos \in TodayLists(host)
    /\ options \in OptionsInputs
    /\ i = 1
    /\ rescheduled = <<>>
    /\ skippedSummary = <<>>
    /\ pc = "loop"
    /\ result = <<>>
    /\ envToken = Omitted
    /\ args = <<>>
    /\ hpc = "none"
    /\ reads = 0
    /\ writes = <<>>
    /\ response = <<>>
    /\ log = <<>>

\* An iteration that ends in skipWith(reason); continue
Skip(reason) ==
    /\ skippedSummary' = skipWith(skippedSummary, reason)
    /\ i' = i + 1
    /\ UNCHANGED <<tz, clock, todos, options, rescheduled, pc, result>>
    /\ UNCHANGED toolVars

InLoop == pc = "loop" /\ i <= Len(todos)

SkipStatus ==
    /\ InLoop
    /\ statusNotOpen(todos[i])
    /\ Skip(StatusReason)

SkipNoDeadline ==
    /\ InLoop
    /\ ~statusNotOpen(todos[i])
    /\ noDeadline(todos[i])
    /\ Skip(DeadlineReason)

SkipExplicitToday ==
    /\ InLoop
    /\ ~statusNotOpen(todos[i])
    /\ ~noDeadline(todos[i])
    /\ explicitToday(todos[i])
    /\ Skip(ExplicitTodayReason)

SkipThreshold ==
    /\ InLoop
    /\ ~statusNotOpen(todos[i])
    /\ ~noDeadline(todos[i])
    /\ ~explicitToday(todos[i])
    /\ withinThreshold(todos[i])
    /\ Skip(ThresholdReason(daysThreshold))

SkipNoMove ==
    /\ InLoop
    /\ ~statusNotOpen(todos[i])
    /\ ~noDeadline(todos[i])
    /\ ~explicitToday(todos[i])
    /\ ~withinThreshold(todos[i])
    /\ wouldNotMove(todos[i])
    /\ Skip(NoMoveReason)

\* A slip: the decision is put at the head of the list (unshift for push)
RescheduleAtHead ==
    /\ InLoop
    /\ ~statusNotOpen(todos[i])
    /\ ~noDeadline(todos[i])
    /\ ~explicitToday(todos[i])
    /\ ~withinThreshold(todos[i])
    /\ ~wouldNotMove(todos[i])
    /\ rescheduled' = <<Decision(todos[i])>> \o rescheduled
    /\ i' = i + 1
    /\ UNCHANGED <<tz, clock, todos, options, skippedSummary, pc, result>>
    /\ UNCHANGED toolVars

Reschedule ==
    /\ InLoop
    /\ ~statusNotOpen(todos[i])
    /\ ~noDeadline(todos[i])
    /\ ~explicitToday(todos[i])
    /\ ~withinThreshold(todos[i])
    /\ ~wouldNotMove(todos[i])
    /\ rescheduled' = Append(rescheduled, Decision(todos[i]))
    /\ i' = i + 1
    /\ UNCHANGED <<tz, clock, todos, options, skippedSummary, pc, result>>
    /\ UNCHANGED toolVars

\* return { rescheduled, skippedSummary, totalToday: todos.length }
Return ==
    /\ pc = "loop"
    /\ i > Len(todos)
    /\ result' = [rescheduled |-> rescheduled,
                  skippedSummary |-> skippedSummary,
                  totalToday |-> Len(todos)]
    /\ pc' = "done"
    /\ UNCHANGED <<tz, clock, todos, options, i, rescheduled, skippedSummary>>
    /\ UNCHANGED toolVars

Next ==
    \/ SkipStatus
    \/ SkipNoDeadline
    \/ SkipExplicitToday
    \/ SkipThreshold
    \/ SkipNoMove
    \/ Reschedule
    \/ Return

Spec == EngineInit /\ [][Next]_vars

----------------------------------------------------------------------------
(* Things URLs, things-url.ts:6-40 and 402-418 *)

\* The printable ASCII characters in the order of their codes, from 32 (the
\* space) to 126 (the tilde): the strings of the model are made of
\* these.  GRAVE holds the place of code 96, the grave accent, which none
\* of them contains

Ascii ==
    <<" ", "!", "\"", "#", "$", "%", "&", "'", "(", ")", "*", "+", ",",
      "-", ".", "/", "0", "1", "2", "3", "4", "5", "6", "7", "8", "9", ":",
      ";", "<", "=", ">", "?", "@", "A", "B", "C", "D", "E", "F", "G", "H",
      "I", "J", "K", "L", "M", "N", "O", "P", "Q", "R", "S", "T", "U", "V",
      "W", "X", "Y", "Z", "[", "\\", "]", "^", "_", "GRAVE", "a", "b", "c",
      "d", "e", "f", "g", "h", "i", "j", "k", "l", "m", "n", "o", "p", "q",
      "r", "s", "t", "u", "v", "w", "x", "y", "z", "{", "|", "}", "~">>

charCode(c) == 31 + CHOOSE k \in 1..Len(Ascii) : Ascii[k] = c

fromCharCode(n) == Ascii[n - 31]

HexDigits ==
    <<"0", "1", "2", "3", "4", "5", "6", "7", "8", "9",
      "A", "B", "C", "D", "E", "F">>

HexValue(c) == (CHOOSE k \in 1..16 : HexDigits[k] = c) - 1

\* The characters encodeURIComponent leaves as they are (ECMA-262,
\* uriUnreserved): the letters, the digits and - _ . ! ~ * ' ( )
Unreserved ==
    { Ascii[k] : k \in (17..26) \cup (34..59) \cup (66..91) }
    \cup {"-", "_", ".", "!", "~", "*", "'", "(", ")"}

\* encodeURIComponent(value) for a string of printable ASCII characters
encodeURIComponent(value) ==
    LET Escaped(c) == <<"%", HexDigits[(charCode(c) \div 16) + 1],
                        HexDigits[(charCode(c) % 16) + 1]>>
    IN  Flatten([k \in 1..Len(value) |->
                    IF value[k] \in Unreserved THEN <<value[k]>>
                    ELSE Escaped(value[k])])

encodeParam(value) == encodeURIComponent(value)

\* Array.prototype.join(sep) for an array of strings
Join(parts, sep) ==
    Flatten([k \in 1..Len(parts) |->
                IF k = 1 THEN parts[k] ELSE sep \o parts[k]])

\* A boolean among the values of a parameter record: like null, a sequence
\* that is no string
JsTrue == <<"true">>

JsFalse == <<"false">>

Boolean(b) == IF b THEN JsTrue ELSE JsFalse

\* `${value}` of a boolean
BooleanString(value) ==
    IF value = JsTrue THEN <<"t", "r", "u", "e">>
    ELSE <<"f", "a", "l", "s", "e">>

THINGS_SCHEME ==
    <<"t", "h", "i", "n", "g", "s", ":", "/", "/", "/">>

\* A slip: the filter keeps the truthy values, so that a boolean false is
\* dropped with undefined and ""
buildURLTruthy(command, params) ==
    LET Kept(entry) ==
            entry[2] # Omitted /\ entry[2] # Given(<<>>) /\ entry[2] # Given(JsFalse)
        filteredParams == SelectSeq(params, Kept)
        Pair(entry) ==
            LET key == entry[1]
                value == CHOOSE v \in entry[2] : TRUE
            IN  IF value \in {JsTrue, JsFalse}
                THEN key \o <<"=">> \o BooleanString(value)
                ELSE key \o <<"=">> \o encodeParam(value)
        queryString ==
            Join([k \in 1..Len(filteredParams) |-> Pair(filteredParams[k])],
                 <<"&">>)
    IN  IF Len(filteredParams) = 0 THEN THINGS_SCHEME \o command
        ELSE THINGS_SCHEME \o command \o <<"?">> \o queryString

\* A parameter record is the sequence of its entries <<key, value>> in the
\* order of their insertion; a value is an optional string or boolean.
\* SelectSeq is Array.prototype.filter.
buildURL(command, params) ==
    LET Kept(entry) == entry[2] # Omitted /\ entry[2] # Given(<<>>)
        filteredParams == SelectSeq(params, Kept)
        Pair(entry) ==
            LET key == entry[1]
                value == CHOOSE v \in entry[2] : TRUE
            IN  IF value \in {JsTrue, JsFalse}
                THEN key \o <<"=">> \o BooleanString(value)
                ELSE key \o <<"=">> \o encodeParam(value)
        queryString ==
            Join([k \in 1..Len(filteredParams) |-> Pair(filteredParams[k])],
                 <<"&">>)
    IN  IF Len(filteredParams) = 0 THEN THINGS_SCHEME \o command
        ELSE THINGS_SCHEME \o command \o <<"?">> \o queryString

KeyAuthToken ==
    <<"a", "u", "t", "h", "-", "t", "o", "k", "e", "n">>

KeyId ==
    <<"i", "d">>

KeyTitle ==
    <<"t", "i", "t", "l", "e">>

KeyNotes ==
    <<"n", "o", "t", "e", "s">>

KeyWhen ==
    <<"w", "h", "e", "n">>

KeyDeadline ==
    <<"d", "e", "a", "d", "l", "i", "n", "e">>

KeyCompleted ==
    <<"c", "o", "m", "p", "l", "e", "t", "e", "d">>

KeyReveal ==
    <<"r", "e", "v", "e", "a", "l">>

KeyData ==
    <<"d", "a", "t", "a">>

CommandUpdate ==
    <<"u", "p", "d", "a", "t", "e">>

CommandUpdateProject ==
    <<"u", "p", "d", "a", "t", "e", "-", "p", "r", "o", "j", "e", "c", "t">>

CommandJson ==
    <<"j", "s", "o", "n">>


KeyCanceled ==
    <<"c", "a", "n", "c", "e", "l", "e", "d">>

KeyQuery ==
    <<"q", "u", "e", "r", "y">>

CommandAdd ==
    <<"a", "d", "d">>

CommandSearch ==
    <<"s", "e", "a", "r", "c", "h">>

\* if (value) urlParams[key] = value: a string enters when it is given and
\* not empty
WhenTruthy(key, value) ==
    IF value # Omitted /\ value # Given(<<>>) THEN <<<<key, value>>>> ELSE <<>>

\* if (value !== undefined) urlParams[key] = value
WhenDefined(key, value) ==
    IF value # Omitted THEN <<<<key, value>>>> ELSE <<>>

\* The urlParams of buildAddTodoURL (things-url.ts:84-114), for the
\* parameters the modelled calls supply (no titles)
AddTodoUrlParams(params) ==
    WhenTruthy(KeyTitle, params.title)
    \o WhenTruthy(KeyNotes, params.notes)
    \o WhenTruthy(KeyWhen, params.when)
    \o WhenDefined(KeyCompleted, params.completed)
    \o WhenDefined(KeyCanceled, params.canceled)
    \o WhenDefined(KeyReveal, params.reveal)

buildAddTodoURL(params) == buildURL(CommandAdd, AddTodoUrlParams(params))

\* The urlParams of buildSearchURL (things-url.ts:384-385)
SearchUrlParams(params) == WhenTruthy(KeyQuery, params.query)

buildSearchURL(params) == buildURL(CommandSearch, SearchUrlParams(params))

\* The urlParams of buildUpdateTodoURL (things-url.ts:231-274), likewise
UpdateTodoUrlParams(params) ==
    <<<<KeyAuthToken, params.authToken>>, <<KeyId, params.id>>>>
    \o WhenDefined(KeyTitle, params.title)
    \o WhenDefined(KeyNotes, params.notes)
    \o WhenDefined(KeyWhen, params.when)
    \o WhenDefined(KeyDeadline, params.deadline)
    \o WhenDefined(KeyCompleted, params.completed)
    \o WhenDefined(KeyReveal, params.reveal)

\* things-url.ts:230-276, for the parameters the modelled calls supply
\* (params.authToken is params["auth-token"])
buildUpdateTodoURL(params) ==
    buildURL(CommandUpdate, UpdateTodoUrlParams(params))

\* things-url.ts:321-349, likewise
buildUpdateProjectURL(params) ==
    LET Defined(key, value) ==
            IF value # Omitted THEN <<<<key, value>>>> ELSE <<>>
    IN  buildURL(CommandUpdateProject,
                 <<<<KeyAuthToken, params.authToken>>, <<KeyId, params.id>>>>
                 \o Defined(KeyTitle, params.title)
                 \o Defined(KeyNotes, params.notes)
                 \o Defined(KeyWhen, params.when)
                 \o Defined(KeyDeadline, params.deadline)
                 \o Defined(KeyCompleted, params.completed)
                 \o Defined(KeyReveal, params.reveal))

----------------------------------------------------------------------------
(* JSON (ECMA-262, the JSON object), for the values the program handles:   *)
(* arrays of update objects                                                *)
(*   {"type": .., "operation": .., "id": .., "attributes": {"when": ..}}   *)
(* whose strings hold neither quotes nor backslashes.                      *)

TypeToDo ==
    <<"t", "o", "-", "d", "o">>

OperationUpdate ==
    <<"u", "p", "d", "a", "t", "e">>

KeyType ==
    <<"t", "y", "p", "e">>

KeyOperation ==
    <<"o", "p", "e", "r", "a", "t", "i", "o", "n">>

KeyAttributes ==
    <<"a", "t", "t", "r", "i", "b", "u", "t", "e", "s">>

\* QuoteJSONString: the string between double quotes, its double quotes and
\* backslashes escaped
EscapeJSON(s) ==
    Flatten([k \in 1..Len(s) |->
                IF s[k] \in {"\"", "\\"} THEN <<"\\", s[k]>> ELSE <<s[k]>>])

QuoteJSONString(s) == <<"\"">> \o EscapeJSON(s) \o <<"\"">>

\* SerializeJSONObject of one update object: the properties in the order
\* of their creation
StringifyEntry(entry) ==
    <<"{">> \o QuoteJSONString(KeyType) \o <<":">>
    \o QuoteJSONString(entry.type) \o <<",">>
    \o QuoteJSONString(KeyOperation) \o <<":">>
    \o QuoteJSONString(entry.operation) \o <<",">>
    \o QuoteJSONString(KeyId) \o <<":">>
    \o QuoteJSONString(entry.id) \o <<",">>
    \o QuoteJSONString(KeyAttributes) \o <<":">>
    \o <<"{">> \o QuoteJSONString(KeyWhen) \o <<":">>
    \o QuoteJSONString(entry.attributes.when) \o <<"}">> \o <<"}">>

\* JSON.stringify(data) of an array of update objects
JSONstringify(data) ==
    <<"[">>
    \o Join([n \in 1..Len(data) |-> StringifyEntry(data[n])], <<",">>)
    \o <<"]">>

\* JSON.parse(text): the array of update objects text denotes, the report
\* that text denotes a value that is no array, or the SyntaxError thrown.
\* Between the double quotes of a text lie in turn the punctuation and the
\* strings; an array of n update objects has 18 * n + 1 such pieces.
JSONparse(text) ==
    LET pieces == Split(text, "\"")
        n == (Len(pieces) - 1) \div 18
        At(k, j) == pieces[18 * (k - 1) + j]
        WellFormed(k) ==
            /\ At(k, 1) = (IF k = 1 THEN <<"[", "{">> ELSE <<"}", "}", ",", "{">>)
            /\ At(k, 2) = KeyType
            /\ At(k, 3) = <<":">>
            /\ At(k, 5) = <<",">>
            /\ At(k, 6) = KeyOperation
            /\ At(k, 7) = <<":">>
            /\ At(k, 9) = <<",">>
            /\ At(k, 10) = KeyId
            /\ At(k, 11) = <<":">>
            /\ At(k, 13) = <<",">>
            /\ At(k, 14) = KeyAttributes
            /\ At(k, 15) = <<":", "{">>
            /\ At(k, 16) = KeyWhen
            /\ At(k, 17) = <<":">>
        Entry(k) ==
            [type |-> At(k, 4), operation |-> At(k, 8), id |-> At(k, 12),
             attributes |-> [when |-> At(k, 18)]]
    IN  IF text = <<"[", "]">> THEN [kind |-> "array", value |-> <<>>]
        ELSE IF text = <<"{", "}">> THEN [kind |-> "object", value |-> <<>>]
        ELSE IF /\ n >= 1
                /\ Len(pieces) = 18 * n + 1
                /\ pieces[Len(pieces)] = <<"}", "}", "]">>
                /\ \A k \in 1..n : WellFormed(k)
             THEN [kind |-> "array", value |-> [k \in 1..n |-> Entry(k)]]
        ELSE [kind |-> "SyntaxError", value |-> <<>>]

\* A slip: the token is left out of the URL
buildJsonURLWithoutToken(params) ==
    buildURL(CommandJson,
             <<<<KeyData, Given(JSONstringify(params.data))>>>>
             \o (IF params.reveal # Omitted
                 THEN <<<<KeyReveal, params.reveal>>>> ELSE <<>>))

\* things-url.ts:410-418 (params.authToken is params["auth-token"])
buildJsonURL(params) ==
    buildURL(CommandJson,
             <<<<KeyData, Given(JSONstringify(params.data))>>>>
             \o (IF params.authToken # Omitted /\ params.authToken # Given(<<>>)
                 THEN <<<<KeyAuthToken, params.authToken>>>> ELSE <<>>)
             \o (IF params.reveal # Omitted
                 THEN <<<<KeyReveal, params.reveal>>>> ELSE <<>>))

\* URLSearchParams' decoding of a name or a value whose escapes are of
\* printable ASCII characters: %XX is the character of code XX (a % is no
\* hexadecimal digit, so each one starts an escape) and + is a space
decodeParam(s) ==
    Flatten([k \in 1..Len(s) |->
                IF s[k] = "%"
                THEN <<fromCharCode(16 * HexValue(s[k + 1]) + HexValue(s[k + 2]))>>
                ELSE IF (k > 1 /\ s[k - 1] = "%") \/ (k > 2 /\ s[k - 2] = "%")
                THEN <<>>
                ELSE IF s[k] = "+" THEN <<" ">>
                ELSE <<s[k]>>])

\* new URL(url).searchParams.get(name): the decoded value of the first
\* parameter called name, or null (things-url.ts:645)
searchParamsGet(url, name) ==
    LET q == IndexFrom(url, "?", 1)
        pairs == IF q > Len(url) THEN <<>>
                 ELSE Split(SubSeq(url, q + 1, Len(url)), "&")
        KeyOf(pair) == SubSeq(pair, 1, IndexFrom(pair, "=", 1) - 1)
        ValueOf(pair) == SubSeq(pair, IndexFrom(pair, "=", 1) + 1, Len(pair))
        found == { k \in 1..Len(pairs) : decodeParam(KeyOf(pairs[k])) = name }
    IN  IF found = {} THEN Null
        ELSE LET first == CHOOSE k \in found : \A m \in found : k <= m
             IN  decodeParam(ValueOf(pairs[first]))

----------------------------------------------------------------------------
(* The reschedule-distant-todos tool.  Its handler is not among the source *)
(* files at hand; it is modelled from the specification (sections 2, 4.3,  *)
(* 6 and 7) around getTodosFromList, the loop above and openThingsURL.     *)

\* The hosts, options and Today lists of the tool invocations modelled
ToolHosts == { h \in Hosts : h.today = <<2026, 2, 28>> }

ToolLists(host) ==
    UNION { { [k \in 1..n |-> Todo(k, fs[k])] :
                fs \in [1..n -> MixedFields(host)] } : n \in 0..MaxTodos }

\* The token given as the authToken argument, and the one of the environment
ParamToken == <<"t", "o", "k">>

EnvToken == <<"e", "n", "v", "+", "1">>

ToolArgs ==
    [tool : {"reschedule-distant-todos"},
     authToken : {Omitted, Given(<<>>), Given(ParamToken)},
     dryRun : BOOLEAN,
     daysThreshold : {Omitted, Given(0)},
     bufferDays : {Omitted, Given(MaxBuffer)}]

\* The token of a call: the authToken argument if it is a non-empty string,
\* else the process-wide THINGS_AUTH_TOKEN, else none
resolveAuthToken(authToken) ==
    IF authToken # Omitted /\ authToken # Given(<<>>) THEN authToken
    ELSE IF envToken # Omitted /\ envToken # Given(<<>>) THEN envToken
    ELSE Omitted

\* A slip: the entries are identified by the names of the to-dos
BatchDataByName(decisions) ==
    [n \in 1..Len(decisions) |->
        [type |-> TypeToDo, operation |-> OperationUpdate,
         id |-> decisions[n].name,
         attributes |-> [when |-> decisions[n].newWhen]]]

\* One update entry per decision, in the order of the decisions
BatchData(decisions) ==
    [n \in 1..Len(decisions) |->
        [type |-> TypeToDo, operation |-> OperationUpdate,
         id |-> decisions[n].id,
         attributes |-> [when |-> decisions[n].newWhen]]]

\* The command object: the update entries and the resolved token, as
\* buildJsonURL takes them (no reveal)
BatchCommand(decisions, token) ==
    [data |-> BatchData(decisions), authToken |-> token, reveal |-> Omitted]

\* A slip: every report carries a hint
ReportWithHint(dryRun, evaluated) ==
    [isError |-> FALSE, dryRun |-> dryRun,
     totalToday |-> evaluated.totalToday,
     rescheduledCount |-> Len(evaluated.rescheduled),
     skippedSummary |-> evaluated.skippedSummary,
     rescheduled |-> evaluated.rescheduled,
     hint |-> "Run again with dryRun = false to apply"]

\* The structured report of a call that did not fail
Report(dryRun, evaluated) ==
    [isError |-> FALSE, dryRun |-> dryRun,
     totalToday |-> evaluated.totalToday,
     rescheduledCount |-> Len(evaluated.rescheduled),
     skippedSummary |-> evaluated.skippedSummary,
     rescheduled |-> evaluated.rescheduled]

\* A slip: the number of decisions is not consulted
IssuesWriteUnlessDry(dryRun, decisions) == ~dryRun

\* A slip: the dryRun flag is not consulted
IssuesWriteAlways(dryRun, decisions) == Len(decisions) > 0

\* A write command is issued unless the run is dry or nothing is to move
IssuesWrite(dryRun, decisions) == ~dryRun /\ Len(decisions) > 0

\* The server is up; no call has arrived
ToolInit ==
    /\ \E host \in ToolHosts : tz = host.tz /\ clock = host.clock
    /\ envToken \in {Omitted, Given(EnvToken)}
    /\ todos = <<>>
    /\ options = [daysThreshold |-> Omitted, bufferDays |-> Omitted]
    /\ i = 1
    /\ rescheduled = <<>>
    /\ skippedSummary = <<>>
    /\ pc = "idle"
    /\ result = <<>>
    /\ args = <<>>
    /\ hpc = "idle"
    /\ reads = 0
    /\ writes = <<>>
    /\ response = <<>>
    /\ log = <<>>

\* A call with a resolvable token: the Today list is requested
Invoke ==
    /\ hpc = "idle"
    /\ \E a \in ToolArgs :
            /\ resolveAuthToken(a.authToken) # Omitted
            /\ args' = a
    /\ hpc' = "fetching"
    /\ reads' = reads + 1
    /\ log' = Append(log, "read")
    /\ UNCHANGED <<engineVars, envToken, writes, response>>

\* A call without one: the precondition failure, before any external call
RejectNoAuth ==
    /\ hpc = "idle"
    /\ \E a \in ToolArgs :
            /\ resolveAuthToken(a.authToken) = Omitted
            /\ args' = a
    /\ hpc' = "responded"
    /\ response' = [isError |-> TRUE, text |-> "Auth token is required"]
    /\ UNCHANGED <<engineVars, envToken, reads, writes, log>>

\* getTodosFromList("Today") returns the list; the engine is entered with
\* the call's daysThreshold and bufferDays
FetchOk ==
    /\ hpc = "fetching"
    /\ \E host \in ToolHosts :
            /\ host.tz = tz
            /\ host.clock = clock
            /\ todos' \in ToolLists(host)
    /\ options' = [daysThreshold |-> args.daysThreshold,
                   bufferDays |-> args.bufferDays]
    /\ i' = 1
    /\ rescheduled' = <<>>
    /\ skippedSummary' = <<>>
    /\ pc' = "loop"
    /\ hpc' = "evaluating"
    /\ log' = Append(log, "read resolved")
    /\ UNCHANGED <<tz, clock, result, envToken, args, reads, writes, response>>

\* A slip: a failed read is tried once more
FetchFailRetry ==
    /\ hpc = "fetching"
    /\ IF reads < 2
       THEN /\ hpc' = "fetching"
            /\ reads' = reads + 1
            /\ response' = response
       ELSE /\ hpc' = "responded"
            /\ reads' = reads
            /\ response' = [isError |-> TRUE,
                             text |-> "Error fetching Today list"]
    /\ log' = Append(log, "read rejected")
    /\ UNCHANGED <<engineVars, envToken, args, writes>>

\* getTodosFromList("Today") throws: the read surface failed
FetchFail ==
    /\ hpc = "fetching"
    /\ hpc' = "responded"
    /\ response' = [isError |-> TRUE, text |-> "Error fetching Today list"]
    /\ log' = Append(log, "read rejected")
    /\ UNCHANGED <<engineVars, envToken, args, reads, writes>>

\* The engine has returned and no write is to be issued: the report
RespondWithoutWrite ==
    /\ hpc = "evaluating"
    /\ pc = "done"
    /\ ~IssuesWrite(args.dryRun, result.rescheduled)
    /\ hpc' = "responded"
    /\ response' = Report(args.dryRun, result)
    /\ UNCHANGED <<engineVars, envToken, args, reads, writes, log>>

\* The engine has returned decisions to carry out: one batch command, whose
\* URL is handed to openThingsURL
Dispatch ==
    /\ hpc = "evaluating"
    /\ pc = "done"
    /\ IssuesWrite(args.dryRun, result.rescheduled)
    /\ writes' = Append(writes,
                        buildJsonURL(BatchCommand(result.rescheduled,
                                                  resolveAuthToken(args.authToken))))
    /\ hpc' = "writing"
    /\ log' = Append(log, "write")
    /\ UNCHANGED <<engineVars, envToken, args, reads, response>>

\* openThingsURL resolves
WriteOk ==
    /\ hpc = "writing"
    /\ hpc' = "responded"
    /\ response' = Report(args.dryRun, result)
    /\ log' = Append(log, "write resolved")
    /\ UNCHANGED <<engineVars, envToken, args, reads, writes>>

\* openThingsURL throws: the error, with the attempted command
WriteFail ==
    /\ hpc = "writing"
    /\ hpc' = "responded"
    /\ response' = [isError |-> TRUE, text |-> "Failed to open Things URL",
                    attempted |-> writes[Len(writes)]]
    /\ log' = Append(log, "write rejected")
    /\ UNCHANGED <<engineVars, envToken, args, reads, writes>>

ToolNext ==
    \/ Invoke
    \/ RejectNoAuth
    \/ FetchOk
    \/ FetchFail
    \/ SkipStatus
    \/ SkipNoDeadline
    \/ SkipExplicitToday
    \/ SkipThreshold
    \/ SkipNoMove
    \/ Reschedule
    \/ Return
    \/ RespondWithoutWrite
    \/ Dispatch
    \/ WriteOk
    \/ WriteFail

ToolSpec == ToolInit /\ [][ToolNext]_vars

----------------------------------------------------------------------------
(* The other tools of the server, as index.ts registers them (part_000):   *)
(* update-todo, update-project, add-json and get-todos.  A call reaches a  *)
(* handler once its arguments have passed the tool's input schema, so the  *)
(* authToken of an update call is a string, possibly the empty one.        *)

\* The id of the update calls (things-url.ts:1117)
FakeId ==
    <<"f", "a", "k", "e">>

\* A title with characters to escape (things-url.ts:653)
SpecialTitle ==
    <<"B", "u", "y", " ", "m", "i", "l", "k", " ", "&", " ", "e", "g", "g",
      "s", " ", "(", "2", ")">>

\* A text that is no JSON
NoJson ==
    <<"{", "o", "o", "p", "s">>

\* A when attribute (things-url.ts:639)
SomeWhen ==
    <<"2", "0", "2", "6", "-", "0", "4", "-", "0", "1">>

\* Names for the list of get-todos
todayLower ==
    <<"t", "o", "d", "a", "y">>

todayUpper ==
    <<"T", "O", "D", "A", "Y">>

NonexistentList ==
    <<"N", "o", "n", "e", "x", "i", "s", "t", "e", "n", "t", "L", "i", "s",
      "t">>

TodayName ==
    <<"T", "o", "d", "a", "y">>

\* String.prototype.toUpperCase and toLowerCase, of printable ASCII
toUpperCase(s) ==
    [k \in 1..Len(s) |->
        IF charCode(s[k]) \in 97..122 THEN fromCharCode(charCode(s[k]) - 32)
        ELSE s[k]]

toLowerCase(s) ==
    [k \in 1..Len(s) |->
        IF charCode(s[k]) \in 65..90 THEN fromCharCode(charCode(s[k]) + 32)
        ELSE s[k]]

validLists ==
    { <<"I", "n", "b", "o", "x">>,
      <<"T", "o", "d", "a", "y">>,
      <<"A", "n", "y", "t", "i", "m", "e">>,
      <<"U", "p", "c", "o", "m", "i", "n", "g">>,
      <<"S", "o", "m", "e", "d", "a", "y">>,
      <<"L", "o", "g", "b", "o", "o", "k">>,
      <<"T", "r", "a", "s", "h">> }

\* getTodosFromList's check of listName, applescript.ts (part_001:187-194)
normalizedList(listName) ==
    toUpperCase(Slice(listName, 0, 1))
    \o toLowerCase(Slice(listName, 1, Len(listName)))

\* A slip: the name is looked up as it was given, without normalising it
IsValidListExact(listName) == listName \in validLists

IsValidList(listName) == normalizedList(listName) \in validLists

\* The outcomes of an external call: execFile resolves, or it rejects (the
\* application is missing or unreachable, permission is denied, the time
\* allowed runs out)
ExecOutcomes == {"resolved", "rejected"}

\* The arguments of update-todo and update-project calls
UpdateArgs(tool) ==
    [tool : {tool},
     authToken : {Given(<<>>), Given(ParamToken)},
     id : {Given(FakeId)},
     title : {Omitted, Given(SpecialTitle)},
     notes : {Omitted, Given(<<>>)},
     when : {Omitted},
     deadline : {Omitted, Given(<<>>)},
     completed : {Omitted, Given(JsTrue)},
     reveal : {Omitted}]

\* The data of add-json calls: no JSON, an object, the empty array and an
\* array of one update object
JsonTexts ==
    { NoJson,
      <<"{", "}">>,
      <<"[", "]">>,
      JSONstringify(<<[type |-> TypeToDo, operation |-> OperationUpdate,
                       id |-> FakeId,
                       attributes |-> [when |-> SomeWhen]]>>) }

AddJsonArgs ==
    [tool : {"add-json"},
     data : JsonTexts,
     authToken : {Omitted, Given(ParamToken)},
     reveal : {Omitted, Given(JsTrue)}]

\* The list of get-todos calls (none of project, area and tag)
GetTodosArgs ==
    [tool : {"get-todos"},
     list : {Omitted, Given(<<>>), Given(todayLower),
             Given(todayUpper),
             Given(NonexistentList)}]

\* What a call of an external surface and its outcome add to the log
Called(surface, outcome) ==
    <<surface, IF surface = "read"
               THEN (IF outcome = "resolved" THEN "read resolved"
                     ELSE "read rejected")
               ELSE (IF outcome = "resolved" THEN "write resolved"
                     ELSE "write rejected")>>

\* What a handler returns when openThingsURL(url) resolves: a result with
\* no isError, or when it throws: the error and the attempted URL
\* (NotOpenedSilently is a slip: the error without the URL)
Opened(url) ==
    [isError |-> FALSE, text |-> "Successfully opened Things URL", url |-> url]

NotOpenedSilently(text, url) ==
    [isError |-> TRUE, text |-> text, cause |-> "Failed to open Things URL",
     attempted |-> <<>>]

NotOpened(text, url) ==
    [isError |-> TRUE, text |-> text, cause |-> "Failed to open Things URL",
     attempted |-> url]

\* The update-todo handler (part_000:802-846)
UpdateTodoHandler ==
    /\ hpc = "idle"
    /\ \E a \in UpdateArgs("update-todo"), outcome \in ExecOutcomes :
            LET url == buildUpdateTodoURL(a)
            IN  /\ args' = a
                /\ writes' = Append(writes, url)
                /\ log' = log \o Called("write", outcome)
                /\ response' = IF outcome = "resolved" THEN Opened(url)
                               ELSE NotOpened("Error updating to-do", url)
    /\ hpc' = "responded"
    /\ UNCHANGED <<engineVars, envToken, reads>>

\* The update-project handler (part_000:889-920)
UpdateProjectHandler ==
    /\ hpc = "idle"
    /\ \E a \in UpdateArgs("update-project"), outcome \in ExecOutcomes :
            LET url == buildUpdateProjectURL(a)
            IN  /\ args' = a
                /\ writes' = Append(writes, url)
                /\ log' = log \o Called("write", outcome)
                /\ response' = IF outcome = "resolved" THEN Opened(url)
                               ELSE NotOpened("Error updating project", url)
    /\ hpc' = "responded"
    /\ UNCHANGED <<engineVars, envToken, reads>>

\* The add-json handler (part_000:1042-1097): data that is no JSON, or no
\* array, is answered before any URL is built
AddJsonHandler ==
    /\ hpc = "idle"
    /\ \E a \in AddJsonArgs, outcome \in ExecOutcomes :
            LET parsedData == JSONparse(a.data)
                url == buildJsonURL([data |-> parsedData.value,
                                     authToken |-> a.authToken,
                                     reveal |-> a.reveal])
            IN  /\ args' = a
                /\ IF parsedData.kind = "SyntaxError"
                   THEN /\ response' = [isError |-> TRUE,
                                        text |-> "Error: Invalid JSON string"]
                        /\ writes' = writes
                        /\ log' = log
                   ELSE IF parsedData.kind # "array"
                   THEN /\ response' = [isError |-> TRUE,
                                        text |->
                                            "Error: data must be a JSON array"]
                        /\ writes' = writes
                        /\ log' = log
                   ELSE /\ writes' = Append(writes, url)
                        /\ log' = log \o Called("write", outcome)
                        /\ response' =
                               IF outcome = "resolved" THEN Opened(url)
                               ELSE NotOpened("Error executing JSON command",
                                              url)
    /\ hpc' = "responded"
    /\ UNCHANGED <<engineVars, envToken, reads>>

\* getTodosFromList(listName), part_001:173-213: what it returns or throws,
\* given the outcome of running its script and the list the script returns.
\* An invalid name throws before the script is run.
getTodosFromList(listName, outcome, list) ==
    IF ~IsValidList(listName)
    THEN [thrown |-> TRUE, message |-> "Invalid list name", value |-> <<>>]
    ELSE IF outcome = "rejected"
    THEN [thrown |-> TRUE, message |-> "JXA execution failed", value |-> <<>>]
    ELSE [thrown |-> FALSE, message |-> "", value |-> list]

\* A slip: no catch clause, the exception leaves the handler
GetTodosResultUncaught(got) ==
    IF got.thrown THEN [uncaught |-> got.message]
    ELSE [isError |-> FALSE, todos |-> got.value]

\* The try and catch of the get-todos handler (part_000:1135-1167)
GetTodosResult(got) ==
    IF got.thrown
    THEN [isError |-> TRUE, text |-> "Error getting to-dos",
          cause |-> got.message]
    ELSE [isError |-> FALSE, todos |-> got.value]

\* The get-todos handler (part_000:1134-1169): the list asked for, Today by
\* default
GetTodosHandler ==
    /\ hpc = "idle"
    /\ \E a \in GetTodosArgs, outcome \in ExecOutcomes, host \in ToolHosts :
            LET listName == IF a.list # Omitted /\ a.list # Given(<<>>)
                            THEN CHOOSE l \in a.list : TRUE
                            ELSE TodayName
            IN  /\ args' = a
                /\ host.tz = tz
                /\ host.clock = clock
                /\ IF IsValidList(listName)
                   THEN /\ reads' = reads + 1
                        /\ log' = log \o Called("read", outcome)
                   ELSE /\ reads' = reads
                        /\ log' = log
                /\ \E list \in ToolLists(host) :
                       response' =
                           GetTodosResult(getTodosFromList(listName, outcome,
                                                           list))
    /\ hpc' = "responded"
    /\ UNCHANGED <<engineVars, envToken, writes>>

ServerNext ==
    \/ Invoke
    \/ RejectNoAuth
    \/ FetchOk
    \/ FetchFail
    \/ SkipStatus
    \/ SkipNoDeadline
    \/ SkipExplicitToday
    \/ SkipThreshold
    \/ SkipNoMove
    \/ Reschedule
    \/ Return
    \/ RespondWithoutWrite
    \/ Dispatch
    \/ WriteOk
    \/ WriteFail
    \/ UpdateTodoHandler
    \/ UpdateProjectHandler
    \/ AddJsonHandler
    \/ GetTodosHandler

ServerSpec == ToolInit /\ [][ServerNext]_vars

----------------------------------------------------------------------------
(* Two reschedule-distant-todos requests on one server.  The handler is an *)
(* async function, as every handler index.ts registers: it runs until it   *)
(* awaits getTodosFromList or openThingsURL, whose execFile calls resolve   *)
(* or reject later (part_001:76-120), and nothing in the source makes a     *)
(* request wait for another.  Here hpc, args and response are functions of  *)
(* the request, and an entry of the log names the request it belongs to.    *)

Requests == {1, 2}

\* The calls of the two requests: with the token as an argument or without
\* any (THINGS_AUTH_TOKEN is not set), dry or not, with daysThreshold and
\* bufferDays both left out or both given
RequestArgs ==
    { a \in ToolArgs : /\ a.authToken \in {Omitted, Given(ParamToken)}
                       /\ a.daysThreshold = Omitted <=> a.bufferDays = Omitted }

\* The Today lists the reads return
RequestLists(host) == { l \in ToolLists(host) : Len(l) <= 1 }

\* An entry of the log: the request, the event and what came with it
LogEntry(r, event, data) == [request |-> r, event |-> event, data |-> data]

\* JavaScript runs a handler to its next await: while the engine's loop runs,
\* and until the handler that called it has gone on to its write or its
\* answer, no other handler runs
Busy == pc = "loop" \/ \E q \in Requests : hpc[q] = "evaluating"

RequestsInit ==
    /\ \E host \in ToolHosts : tz = host.tz /\ clock = host.clock
    /\ envToken = Omitted
    /\ todos = <<>>
    /\ options = [daysThreshold |-> Omitted, bufferDays |-> Omitted]
    /\ i = 1
    /\ rescheduled = <<>>
    /\ skippedSummary = <<>>
    /\ pc = "idle"
    /\ result = <<>>
    /\ args = [r \in Requests |-> <<>>]
    /\ hpc = [r \in Requests |-> "idle"]
    /\ reads = 0
    /\ writes = <<>>
    /\ response = [r \in Requests |-> <<>>]
    /\ log = <<>>

\* A request arrives and its handler runs to its first await: without a
\* token it answers at once, with one it asks for the Today list
Arrive(r) ==
    /\ ~Busy
    /\ hpc[r] = "idle"
    /\ \E a \in RequestArgs :
            /\ args' = [args EXCEPT ![r] = a]
            /\ IF resolveAuthToken(a.authToken) = Omitted
               THEN /\ hpc' = [hpc EXCEPT ![r] = "responded"]
                    /\ response' = [response EXCEPT ![r] =
                           [isError |-> TRUE, text |-> "Auth token is required"]]
                    /\ reads' = reads
                    /\ log' = log
               ELSE /\ hpc' = [hpc EXCEPT ![r] = "fetching"]
                    /\ response' = response
                    /\ reads' = reads + 1
                    /\ log' = Append(log, LogEntry(r, "read", <<>>))
    /\ UNCHANGED <<engineVars, envToken, writes>>

\* The read of request r resolves: the engine is entered with its list
ReadResolves(r) ==
    /\ ~Busy
    /\ hpc[r] = "fetching"
    /\ \E host \in ToolHosts :
            /\ host.tz = tz
            /\ host.clock = clock
            /\ \E list \in RequestLists(host) :
                    /\ todos' = list
                    /\ log' = Append(log, LogEntry(r, "read resolved", list))
    /\ options' = [daysThreshold |-> args[r].daysThreshold,
                   bufferDays |-> args[r].bufferDays]
    /\ i' = 1
    /\ rescheduled' = <<>>
    /\ skippedSummary' = <<>>
    /\ pc' = "loop"
    /\ hpc' = [hpc EXCEPT ![r] = "evaluating"]
    /\ UNCHANGED <<tz, clock, result, envToken, args, reads, writes, response>>

\* The read of request r rejects
ReadRejects(r) ==
    /\ ~Busy
    /\ hpc[r] = "fetching"
    /\ hpc' = [hpc EXCEPT ![r] = "responded"]
    /\ response' = [response EXCEPT ![r] =
           [isError |-> TRUE, text |-> "Error fetching Today list"]]
    /\ log' = Append(log, LogEntry(r, "read rejected", <<>>))
    /\ UNCHANGED <<engineVars, envToken, args, reads, writes>>

\* The engine has returned to request r and no write is to be issued
AnswerWithoutWrite(r) ==
    /\ hpc[r] = "evaluating"
    /\ pc = "done"
    /\ ~IssuesWrite(args[r].dryRun, result.rescheduled)
    /\ hpc' = [hpc EXCEPT ![r] = "responded"]
    /\ response' = [response EXCEPT ![r] = Report(args[r].dryRun, result)]
    /\ UNCHANGED <<engineVars, envToken, args, reads, writes, log>>

\* The engine has returned decisions to request r: its batch command is
\* handed to openThingsURL
IssueWrite(r) ==
    /\ hpc[r] = "evaluating"
    /\ pc = "done"
    /\ IssuesWrite(args[r].dryRun, result.rescheduled)
    /\ LET url == buildJsonURL(BatchCommand(result.rescheduled,
                                            resolveAuthToken(args[r].authToken)))
       IN  /\ writes' = Append(writes, url)
           /\ log' = Append(log, LogEntry(r, "write", url))
    /\ hpc' = [hpc EXCEPT ![r] = "writing"]
    /\ response' = [response EXCEPT ![r] = Report(args[r].dryRun, result)]
    /\ UNCHANGED <<engineVars, envToken, args, reads>>

\* The write of request r resolves: the report made when it was issued
WriteResolves(r) ==
    /\ ~Busy
    /\ hpc[r] = "writing"
    /\ hpc' = [hpc EXCEPT ![r] = "responded"]
    /\ log' = Append(log, LogEntry(r, "write resolved", <<>>))
    /\ UNCHANGED <<engineVars, envToken, args, reads, writes, response>>

\* The write of request r rejects
WriteRejects(r) ==
    /\ ~Busy
    /\ hpc[r] = "writing"
    /\ hpc' = [hpc EXCEPT ![r] = "responded"]
    /\ response' = [response EXCEPT ![r] =
           [isError |-> TRUE, text |-> "Failed to open Things URL",
            attempted |-> writes[Len(writes)]]]
    /\ log' = Append(log, LogEntry(r, "write rejected", <<>>))
    /\ UNCHANGED <<engineVars, envToken, args, reads, writes>>

RequestsNext ==
    \/ \E r \in Requests : Arrive(r)
    \/ \E r \in Requests : ReadResolves(r)
    \/ \E r \in Requests : ReadRejects(r)
    \/ SkipStatus
    \/ SkipNoDeadline
    \/ SkipExplicitToday
    \/ SkipThreshold
    \/ SkipNoMove
    \/ Reschedule
    \/ Return
    \/ \E r \in Requests : AnswerWithoutWrite(r)
    \/ \E r \in Requests : IssueWrite(r)
    \/ \E r \in Requests : WriteResolves(r)
    \/ \E r \in Requests : WriteRejects(r)

RequestsSpec == RequestsInit /\ [][RequestsNext]_vars

----------------------------------------------------------------------------
(* The date utilities called on their own, as testDateUtilities and        *)
(* testEdgeCases call them (things-url.ts:496-545 and 963-1023): args is   *)
(* the one call of a run, result what it returned.                         *)

\* The calendar days around the host's today, as "YYYY-MM-DD"
CalendarDays(host) ==
    { IsoString(HostDay(host) + k, <<>>) : k \in (0 - MaxOverdue)..MaxDaysOut }

\* The same with what may follow the date in an ISO-8601 string
IsoInputs(host) ==
    { day \o suffix : day \in CalendarDays(host),
                      suffix \in {<<>>, MidnightZ, AfternoonPlus9} }

\* The same as Dates: the local midnights of these days
LocalMidnights(host) ==
    { UTC(host.tz, MakeDate(HostDay(host) + k, 0)) :
        k \in (0 - MaxOverdue)..MaxDaysOut }

DateInit ==
    /\ \E host \in Hosts : tz = host.tz /\ clock = host.clock
    /\ todos = <<>>
    /\ options = [daysThreshold |-> Omitted, bufferDays |-> Omitted]
    /\ i = 1
    /\ rescheduled = <<>>
    /\ skippedSummary = <<>>
    /\ pc = "idle"
    /\ result = <<>>
    /\ envToken = Omitted
    /\ args = <<>>
    /\ hpc = "none"
    /\ reads = 0
    /\ writes = <<>>
    /\ response = <<>>
    /\ log = <<>>

\* daysBetween(parseDateOnly(from), parseDateOnly(to)), lines 521-538
DaysBetweenCall ==
    /\ args = <<>>
    /\ \E host \in Hosts :
            /\ host.tz = tz
            /\ host.clock = clock
            /\ \E from \in CalendarDays(host), to \in CalendarDays(host) :
                    /\ args' = [fn |-> "daysBetween", from |-> from, to |-> to]
                    /\ result' = daysBetween(parseDateOnly(tz, from),
                                             parseDateOnly(tz, to))
    /\ UNCHANGED <<tz, clock, todos, options, i, rescheduled, skippedSummary,
                   pc, envToken, hpc, reads, writes, response, log>>

\* formatDateLocal(parseDateOnly(isoString)), lines 506-519 and 986-994
FormatOfParseCall ==
    /\ args = <<>>
    /\ \E host \in Hosts :
            /\ host.tz = tz
            /\ host.clock = clock
            /\ \E isoString \in IsoInputs(host) :
                    /\ args' = [fn |-> "formatDateLocal(parseDateOnly)",
                                isoString |-> isoString]
                    /\ result' = formatDateLocal(tz, parseDateOnly(tz, isoString))
    /\ UNCHANGED <<tz, clock, todos, options, i, rescheduled, skippedSummary,
                   pc, envToken, hpc, reads, writes, response, log>>

\* parseDateOnly(formatDateLocal(date)) of a local midnight
ParseOfFormatCall ==
    /\ args = <<>>
    /\ \E host \in Hosts :
            /\ host.tz = tz
            /\ host.clock = clock
            /\ \E date \in LocalMidnights(host) :
                    /\ args' = [fn |-> "parseDateOnly(formatDateLocal)",
                                date |-> date]
                    /\ result' = parseDateOnly(tz, formatDateLocal(tz, date))
    /\ UNCHANGED <<tz, clock, todos, options, i, rescheduled, skippedSummary,
                   pc, envToken, hpc, reads, writes, response, log>>

\* The day of a to-do's deadline or activation date as the engine gets it:
\* the application holds the local midnight of the day, getTodosFromList's
\* script serialises it with toISOString() (part_001:203-204) and the engine
\* reads it with formatDateLocal(parseDateOnly(...)) (things-url.ts:696, 703)
SerialisedDayCall ==
    /\ args = <<>>
    /\ \E host \in Hosts :
            /\ host.tz = tz
            /\ host.clock = clock
            /\ \E k \in (0 - MaxOverdue)..MaxDaysOut :
                    LET date == UTC(tz, MakeDate(HostDay(host) + k, 0))
                    IN  /\ args' = [fn |-> "parseDateOnly(toISOString)",
                                    day |-> IsoString(HostDay(host) + k, <<>>),
                                    date |-> date,
                                    isoString |-> toISOString(date)]
                        /\ result' = formatDateLocal(tz,
                                         parseDateOnly(tz, toISOString(date)))
    /\ UNCHANGED <<tz, clock, todos, options, i, rescheduled, skippedSummary,
                   pc, envToken, hpc, reads, writes, response, log>>

DateNext ==
    \/ DaysBetweenCall
    \/ FormatOfParseCall
    \/ ParseOfFormatCall
    \/ SerialisedDayCall

DateSpec == DateInit /\ [][DateNext]_vars

----------------------------------------------------------------------------
(* The URL builders called on their own, as testURLBuilders calls them     *)
(* (things-url.ts:547-660): args is the one call of a run, with the        *)
(* urlParams it hands to buildURL, and result the URL it returned.         *)

\* A query with a space (things-url.ts:619)
HelloWorld ==
    <<"h", "e", "l", "l", "o", " ", "w", "o", "r", "l", "d">>

\* An optional boolean
OptionalBooleans == {Omitted, Given(JsTrue), Given(JsFalse)}

AddTodoParams ==
    [title : {Omitted, Given(<<>>), Given(SpecialTitle)},
     notes : {Omitted, Given(<<>>)},
     when : {Omitted, Given(SomeWhen)},
     completed : OptionalBooleans,
     canceled : OptionalBooleans,
     reveal : {Omitted}]

SearchParams == [query : {Omitted, Given(<<>>), Given(HelloWorld)}]

UpdateTodoParams ==
    [authToken : {Omitted, Given(<<>>), Given(ParamToken)},
     id : {Given(FakeId)},
     title : {Omitted},
     notes : {Omitted, Given(<<>>), Given(HelloWorld)},
     when : {Omitted},
     deadline : {Omitted, Given(<<>>), Given(SomeWhen)},
     completed : OptionalBooleans,
     reveal : {Omitted}]

\* No call made yet, on the host whose zone is UTC
UrlInit == DateInit /\ tz = NoDST(0)

\* The call of a builder: what it was, what it handed to buildURL and what
\* came back
BuilderCall(fn, params, command, urlParams, url) ==
    /\ args = <<>>
    /\ args' = [fn |-> fn, params |-> params, command |-> command,
                urlParams |-> urlParams]
    /\ result' = url
    /\ UNCHANGED <<tz, clock, todos, options, i, rescheduled, skippedSummary,
                   pc, envToken, hpc, reads, writes, response, log>>

BuildAddTodoCall ==
    \E params \in AddTodoParams :
        BuilderCall("buildAddTodoURL", params, CommandAdd,
                    AddTodoUrlParams(params), buildAddTodoURL(params))

BuildSearchCall ==
    \E params \in SearchParams :
        BuilderCall("buildSearchURL", params, CommandSearch,
                    SearchUrlParams(params), buildSearchURL(params))

BuildUpdateTodoCall ==
    \E params \in UpdateTodoParams :
        BuilderCall("buildUpdateTodoURL", params, CommandUpdate,
                    UpdateTodoUrlParams(params), buildUpdateTodoURL(params))

UrlNext ==
    \/ BuildAddTodoCall
    \/ BuildSearchCall
    \/ BuildUpdateTodoCall

UrlSpec == UrlInit /\ [][UrlNext]_vars

----------------------------------------------------------------------------
(* The engine called again on later days, as the tool is invoked day after *)
(* day: the decisions of a call are applied to the to-dos (the update sets  *)
(* when = newWhen, which the next Today list shows as the activation date), *)
(* the clock moves on and the engine is called with the list as it is then. *)
(* The log keeps the updates applied; daysThreshold, bufferDays and the     *)
(* deadlines stay as they were.                                             *)

\* The clock moves on by MaxLater days at most
MaxLater == MaxDaysOut + 1

\* A first call on a list of one to-do with no activation date or today's
LaterInit ==
    /\ EngineInit
    /\ Len(todos) = 1
    /\ todos[1].activationDate = Null
           \/ todos[1].activationDate[12] = "1"

\* The to-do as the Today list shows it once the decision made for it, if
\* any, is carried out
Updated(todo, decisions) ==
    LET made == { n \in 1..Len(decisions) : decisions[n].id = todo.id }
    IN  IF made = {} THEN todo
        ELSE [todo EXCEPT !.activationDate =
                 decisions[CHOOSE n \in made : TRUE].newWhen \o MidnightZ]

\* What the log keeps of decisions: the to-do and the day it was moved to
Applied(decisions) ==
    [n \in 1..Len(decisions) |->
        [id |-> decisions[n].id, newWhen |-> decisions[n].newWhen]]

\* The decisions of the call that has returned are carried out; the log
\* keeps the first one of a to-do
ApplyUpdate ==
    /\ pc = "done"
    /\ result.rescheduled # <<>>
    /\ todos' = [k \in 1..Len(todos) |-> Updated(todos[k], result.rescheduled)]
    /\ log' = log \o SelectSeq(Applied(result.rescheduled),
                              LAMBDA a : \A n \in 1..Len(log) : log[n].id # a.id)
    /\ pc' = "applied"
    /\ UNCHANGED <<tz, clock, options, i, rescheduled, skippedSummary, result,
                   envToken, args, hpc, reads, writes, response>>

\* The next call, on the same day or on the next one, once an update has
\* been applied
CallAgain ==
    /\ \/ pc = "applied"
       \/ pc = "done" /\ result.rescheduled = <<>> /\ log # <<>>
    /\ \E days \in {0, 1} :
            /\ \E host \in Hosts, n \in 0..(MaxLater - days) :
                    host.tz = tz /\ clock = host.clock + n * msPerDay
            /\ clock' = clock + days * msPerDay
    /\ i' = 1
    /\ rescheduled' = <<>>
    /\ skippedSummary' = <<>>
    /\ result' = <<>>
    /\ pc' = "loop"
    /\ UNCHANGED <<tz, todos, options, envToken, args, hpc, reads, writes,
                   response, log>>

LaterNext ==
    \/ SkipStatus
    \/ SkipNoDeadline
    \/ SkipExplicitToday
    \/ SkipThreshold
    \/ SkipNoMove
    \/ Reschedule
    \/ Return
    \/ ApplyUpdate
    \/ CallAgain

LaterSpec == LaterInit /\ [][LaterNext]_vars

----------------------------------------------------------------------------
(* Calendar days as the claims read them: <<year, month, day>> triples     *)
(* taken digit by digit from the strings and stepped day by day, none of   *)
(* it through the Date arithmetic above.                                   *)

CalendarDay(s) ==
    <<1000 * DigitValue(s[1]) + 100 * DigitValue(s[2])
          + 10 * DigitValue(s[3]) + DigitValue(s[4]),
      10 * DigitValue(s[6]) + DigitValue(s[7]),
      10 * DigitValue(s[9]) + DigitValue(s[10])>>

LeapYear(y) == (y % 4 = 0 /\ y % 100 # 0) \/ y % 400 = 0

MonthLength(y, m) ==
    IF m = 2 THEN (IF LeapYear(y) THEN 29 ELSE 28)
    ELSE IF m \in {4, 6, 9, 11} THEN 30
    ELSE 31

DayBefore(day) ==
    IF day[3] > 1 THEN <<day[1], day[2], day[3] - 1>>
    ELSE IF day[2] > 1 THEN <<day[1], day[2] - 1, MonthLength(day[1], day[2] - 1)>>
    ELSE <<day[1] - 1, 12, 31>>

\* The calendar day n days before day
RECURSIVE DaysBefore(_, _)
DaysBefore(day, n) == IF n = 0 THEN day ELSE DaysBefore(DayBefore(day), n - 1)

\* a is an earlier calendar day than b
Earlier(a, b) ==
    \/ a[1] < b[1]
    \/ a[1] = b[1] /\ a[2] < b[2]
    \/ a[1] = b[1] /\ a[2] = b[2] /\ a[3] < b[3]

\* The calendar day the host's user calls today
Today == (CHOOSE h \in Hosts : h.tz = tz /\ h.clock = clock).today

\* The to-dos the loop has dealt with
Processed == 1..(i - 1)

\* The to-do at position k has a decision
Decided(k) == \E n \in 1..Len(rescheduled) : rescheduled[n].id = todos[k].id

\* The number of to-dos counted under a skip reason
Count(reason) ==
    IF reason \in DOMAIN skippedSummary THEN skippedSummary[reason] ELSE 0

IsOpen(k) == todos[k].status = "open"

HasDeadline(k) == todos[k].dueDate # Null

ActivatedToday(k) ==
    /\ todos[k].activationDate # Null
    /\ CalendarDay(todos[k].activationDate) = Today

\* C1: a to-do whose activation date is present and falls on today's
\* calendar day never has a decision, however far its deadline; those of them
\* that are open and have a deadline are the to-dos counted under
\* "explicitly scheduled for today (activationDate = today)".
C1_ExplicitTodayProtected ==
    /\ \A k \in Processed : ActivatedToday(k) => ~Decided(k)
    /\ Count(<<"explicitly scheduled for today (activationDate = today)">>)
           = Cardinality({ k \in Processed :
                 IsOpen(k) /\ HasDeadline(k) /\ ActivatedToday(k) })

\* C1's case: an open to-do placed in Today with an afternoon time of day,
\* its deadline MaxDaysOut days out, has been skipped as protected.
C1_Witness ==
    /\ pc = "done"
    /\ Len(todos) = 1
    /\ IsOpen(1)
    /\ ActivatedToday(1)
    /\ todos[1].activationDate[12] = "1"
    /\ HasDeadline(1)
    /\ DaysBefore(CalendarDay(todos[1].dueDate), MaxDaysOut) = Today
    /\ result.rescheduled = <<>>
    /\ DOMAIN result.skippedSummary
           = {<<"explicitly scheduled for today (activationDate = today)">>}

\* C2: a to-do whose status is not "open" never has a decision, and every
\* such to-do is counted under "status is not open", whatever its dueDate
\* and activationDate.
C2_StatusFilter ==
    /\ \A k \in Processed : ~IsOpen(k) => ~Decided(k)
    /\ Count(<<"status is not open">>)
           = Cardinality({ k \in Processed : ~IsOpen(k) })

\* C2's case: a canceled to-do with a deadline MaxDaysOut days out and no
\* activation date has been skipped for its status.
C2_Witness ==
    /\ pc = "done"
    /\ Len(todos) = 1
    /\ todos[1].status = "canceled"
    /\ HasDeadline(1)
    /\ DaysBefore(CalendarDay(todos[1].dueDate), MaxDaysOut) = Today
    /\ todos[1].activationDate = Null
    /\ result.rescheduled = <<>>
    /\ result.skippedSummary = (<<"status is not open">> :> 1)

\* C3: an open to-do without a dueDate never has a decision, and every such
\* to-do is counted under "no deadline set".
C3_DeadlinePresenceFilter ==
    /\ \A k \in Processed : (IsOpen(k) /\ ~HasDeadline(k)) => ~Decided(k)
    /\ Count(<<"no deadline set">>)
           = Cardinality({ k \in Processed : IsOpen(k) /\ ~HasDeadline(k) })

\* C3's case: two open to-dos without a deadline have both been counted.
C3_Witness ==
    /\ pc = "done"
    /\ Len(todos) = 2
    /\ \A k \in 1..2 : IsOpen(k) /\ ~HasDeadline(k)
    /\ result.rescheduled = <<>>
    /\ result.skippedSummary = (<<"no deadline set">> :> 2)

\* daysThreshold and bufferDays as the claims state them: 7 and 3 when the
\* option is omitted
Threshold == IF options.daysThreshold = {} THEN 7
             ELSE CHOOSE n \in options.daysThreshold : TRUE

Buffer == IF options.bufferDays = {} THEN 3
          ELSE CHOOSE n \in options.bufferDays : TRUE

\* The to-do at position k passes the status, deadline and explicit-today
\* filters
Unprotected(k) == IsOpen(k) /\ HasDeadline(k) /\ ~ActivatedToday(k)

\* daysUntilDue of the to-do at position k, a to-do with a deadline
DaysOut(k) == daysUntilDue(todos[k])

\* The calendar day Buffer days before the deadline of the to-do at k
TargetDay(k) == DaysBefore(CalendarDay(todos[k].dueDate), Buffer)

\* C4: the threshold filter skips exactly the open, unprotected to-dos with
\* a deadline whose daysUntilDue is at most daysThreshold - 1, so that
\* daysUntilDue = daysThreshold passes it; the reason's label carries the
\* threshold in use, 7 when the option is omitted.
C4_ThresholdStrict ==
    /\ Count(<<"deadline within threshold (< ", Threshold, " days)">>)
           = Cardinality({ k \in Processed :
                 Unprotected(k) /\ DaysOut(k) <= Threshold - 1 })
    /\ \A k \in Processed :
           (Unprotected(k) /\ DaysOut(k) = Threshold)
               => (Decided(k) \/ ~Earlier(Today, TargetDay(k)))
    /\ \A r \in DOMAIN skippedSummary : Len(r) = 3 => r[2] = Threshold

\* C4's case: with daysThreshold omitted, a to-do due in exactly 7 days has
\* been rescheduled (test 3n).
C4_Witness ==
    /\ pc = "done"
    /\ Len(todos) = 1
    /\ options.daysThreshold = {}
    /\ Unprotected(1)
    /\ DaysOut(1) = 7
    /\ Len(result.rescheduled) = 1
    /\ result.skippedSummary = <<>>

\* C5: every decision's newWhen is the ten-character rendering of the
\* calendar day exactly bufferDays days before the calendar day of its
\* to-do's dueDate (the deadline day itself for bufferDays = 0).
C5_TargetDate ==
    \A n \in 1..Len(rescheduled) : \A k \in Processed :
        rescheduled[n].id = todos[k].id =>
            /\ Len(rescheduled[n].newWhen) = 10
            /\ rescheduled[n].newWhen[5] = "-"
            /\ rescheduled[n].newWhen[8] = "-"
            /\ CalendarDay(rescheduled[n].newWhen) = TargetDay(k)

\* C5's case: with bufferDays omitted, a deadline early in January has been
\* pulled back 3 days into December of the year before.
C5_Witness ==
    /\ pc = "done"
    /\ Len(todos) = 1
    /\ options.bufferDays = {}
    /\ Len(result.rescheduled) = 1
    /\ CalendarDay(todos[1].dueDate)[2] = 1
    /\ CalendarDay(result.rescheduled[1].newWhen)[2] = 12
    /\ CalendarDay(result.rescheduled[1].newWhen)[1]
           = CalendarDay(todos[1].dueDate)[1] - 1

\* C6: an open, unprotected to-do with a deadline that passes the threshold
\* filter and whose target day is today or earlier has no decision, and these
\* are the to-dos counted under "computed new date would not move to-do out
\* of Today".
C6_NoOpGuard ==
    LET guarded == { k \in Processed :
                       /\ Unprotected(k)
                       /\ DaysOut(k) >= Threshold
                       /\ ~Earlier(Today, TargetDay(k)) }
    IN  /\ \A k \in guarded : ~Decided(k)
        /\ Count(<<"computed new date would not move to-do out of Today">>)
               = Cardinality(guarded)

\* C6's case: daysThreshold omitted (7), bufferDays 8, deadline 8 days out:
\* the target day is today and the to-do has been skipped by the guard
\* (test 3j).
C6_Witness ==
    /\ pc = "done"
    /\ Len(todos) = 1
    /\ options.daysThreshold = {}
    /\ options.bufferDays = {8}
    /\ Unprotected(1)
    /\ DaysOut(1) = 8
    /\ TargetDay(1) = Today
    /\ result.rescheduled = <<>>
    /\ result.skippedSummary
           = (<<"computed new date would not move to-do out of Today">> :> 1)

\* C7: every decision's newWhen is a calendar day strictly after today, and
\* a to-do whose deadline is today or overdue never has a decision.
C7_NeverTodayOrPast ==
    /\ \A n \in 1..Len(rescheduled) :
           Earlier(Today, CalendarDay(rescheduled[n].newWhen))
    /\ \A k \in Processed :
           (HasDeadline(k) /\ ~Earlier(Today, CalendarDay(todos[k].dueDate)))
               => ~Decided(k)

\* C7's case: daysThreshold 0 and bufferDays 0 let a deadline that is today
\* through the threshold filter; it has not been rescheduled.
C7_Witness ==
    /\ pc = "done"
    /\ Len(todos) = 1
    /\ options.daysThreshold = {0}
    /\ options.bufferDays = {0}
    /\ Unprotected(1)
    /\ CalendarDay(todos[1].dueDate) = Today
    /\ result.rescheduled = <<>>

\* The sum of the counts of a skip summary
RECURSIVE SumOfCounts(_)
SumOfCounts(summary) ==
    IF DOMAIN summary = {} THEN 0
    ELSE LET r == CHOOSE x \in DOMAIN summary : TRUE
         IN  summary[r]
                 + SumOfCounts([x \in DOMAIN summary \ {r} |-> summary[x]])

\* C8: every to-do dealt with has produced one decision or one increment
\* of one skip counter: decisions plus skip counts equal the number of
\* to-dos dealt with, no two decisions are of the same to-do, and the value
\* returned has totalToday = the length of the list = decisions plus skips.
C8_ExactlyOneOutcome ==
    /\ Len(rescheduled) + SumOfCounts(skippedSummary) = i - 1
    /\ \A m, n \in 1..Len(rescheduled) :
           rescheduled[m].id = rescheduled[n].id => m = n
    /\ \A k \in Processed : Decided(k) \/ SumOfCounts(skippedSummary) > 0
    /\ pc = "done" =>
           /\ result.totalToday = Len(todos)
           /\ Len(result.rescheduled) + SumOfCounts(result.skippedSummary)
                  = result.totalToday

\* C8's case: a list of two to-dos has ended in one decision and one skip.
C8_Witness ==
    /\ pc = "done"
    /\ Len(todos) = 2
    /\ Len(result.rescheduled) = 1
    /\ SumOfCounts(result.skippedSummary) = 1
    /\ result.totalToday = 2

\* The reason of the first filter, in the order status, deadline presence,
\* explicit-today, threshold, no-op guard, that the to-do at k matches;
\* <<>> when it matches none
FirstMatch(k) ==
    IF ~IsOpen(k) THEN <<"status is not open">>
    ELSE IF ~HasDeadline(k) THEN <<"no deadline set">>
    ELSE IF ActivatedToday(k)
        THEN <<"explicitly scheduled for today (activationDate = today)">>
    ELSE IF DaysOut(k) < Threshold
        THEN <<"deadline within threshold (< ", Threshold, " days)">>
    ELSE IF ~Earlier(Today, TargetDay(k))
        THEN <<"computed new date would not move to-do out of Today">>
    ELSE <<>>

\* C9: each iteration counts its to-do under the reason of the first filter
\* it matches, in the fixed order, and under no other; a to-do matching no
\* filter gets a decision and no count.
C9_FirstMatchWins ==
    [][ i' = i + 1 =>
          LET r == FirstMatch(i)
          IN  IF r = <<>>
              THEN /\ skippedSummary' = skippedSummary
                   /\ Len(rescheduled') = Len(rescheduled) + 1
              ELSE /\ rescheduled' = rescheduled
                   /\ DOMAIN skippedSummary' = DOMAIN skippedSummary \cup {r}
                   /\ skippedSummary'[r] = Count(r) + 1
                   /\ \A x \in DOMAIN skippedSummary :
                          x # r => skippedSummary'[x] = skippedSummary[x]
      ]_vars

\* C9's case: an open to-do activated today whose deadline is also within
\* the threshold has been counted under the explicit-today reason alone.
C9_Witness ==
    /\ pc = "done"
    /\ Len(todos) = 1
    /\ IsOpen(1)
    /\ HasDeadline(1)
    /\ ActivatedToday(1)
    /\ DaysOut(1) < Threshold
    /\ result.skippedSummary
           = (<<"explicitly scheduled for today (activationDate = today)">> :> 1)

\* C10: in a call with dryRun = true no write command is ever dispatched,
\* whatever the Today list holds and however many decisions the engine made;
\* a dry run that gets its list answers with the decision report.
C10_DryRunNoWrite ==
    (hpc # "idle" /\ args.dryRun) =>
        /\ writes = <<>>
        /\ hpc # "writing"
        /\ (hpc = "responded" /\ pc = "done") =>
               /\ ~response.isError
               /\ response.dryRun
               /\ response.rescheduled = result.rescheduled
               /\ response.rescheduledCount = Len(result.rescheduled)
               /\ response.totalToday = Len(todos)

\* C10's case: a dry run over a Today list of MaxTodos to-dos has made a
\* decision for each of them and has answered without a write.
C10_Witness ==
    /\ hpc = "responded"
    /\ args.dryRun
    /\ Len(todos) = MaxTodos
    /\ ~response.isError
    /\ response.rescheduledCount = MaxTodos
    /\ writes = <<>>

----------------------------------------------------------------------------
(* The tool invocations *)

\* The tools said to require a token
AuthRequiring == {"reschedule-distant-todos", "update-todo", "update-project"}

\* Neither the argument nor the environment holds a non-empty token
NoTokenResolvable ==
    /\ args.authToken \subseteq {<<>>}
    /\ envToken \subseteq {<<>>}

\* C11: a call of an auth-requiring tool (reschedule-distant-todos,
\* update-todo, update-project) for which no token is resolvable is answered
\* at once with the error "Auth token is required": no read of a list, no
\* evaluation by the engine and no write take place.
C11_AuthPrecondition ==
    (hpc # "idle" /\ args.tool \in AuthRequiring /\ NoTokenResolvable) =>
        /\ hpc = "responded"
        /\ response.isError
        /\ response.text = "Auth token is required"
        /\ reads = 0
        /\ writes = <<>>
        /\ pc = "idle"

\* The token the call is to use: the authToken argument if it is given and
\* not empty, else that of the environment
TokenOfCall ==
    IF args.authToken \subseteq {<<>>} THEN CHOOSE t \in envToken : TRUE
    ELSE CHOOSE t \in args.authToken : TRUE

\* C12: when dryRun is false and the engine made decisions, exactly one
\* write command is issued; the data parameter of its URL decodes to a list
\* with one update entry per decision, in the order of the decisions, each
\* with the decision's id and with when equal to its newWhen, and the URL
\* carries the resolved token.
C12_BatchConstruction ==
    (/\ hpc \in {"writing", "responded"}
     /\ pc = "done"
     /\ ~args.dryRun
     /\ Len(result.rescheduled) > 0) =>
        /\ Len(writes) = 1
        /\ LET decoded == JSONparse(searchParamsGet(writes[1], KeyData))
           IN  /\ decoded.kind = "array"
               /\ Len(decoded.value) = Len(result.rescheduled)
               /\ \A n \in 1..Len(result.rescheduled) :
                      /\ decoded.value[n].operation = <<"u", "p", "d", "a", "t", "e">>
                      /\ decoded.value[n].id = result.rescheduled[n].id
                      /\ decoded.value[n].attributes.when =
                             result.rescheduled[n].newWhen
        /\ searchParamsGet(writes[1], KeyAuthToken) = TokenOfCall

\* C12's case: a call with dryRun = false whose engine moved MaxTodos to-dos
\* has been answered after its one write, made with the token of the
\* environment.
C12_Witness ==
    /\ hpc = "responded"
    /\ pc = "done"
    /\ ~args.dryRun
    /\ Len(result.rescheduled) = MaxTodos
    /\ Len(writes) = 1
    /\ ~response.isError
    /\ args.authToken = Omitted

\* C13: when the engine returns no decisions no write command is issued,
\* even with dryRun = false: the call is answered without a write attempt,
\* with a report, not an error, whose rescheduledCount is 0.
C13_NoDecisionsNoWrite ==
    (hpc # "idle" /\ pc = "done" /\ Len(result.rescheduled) = 0) =>
        /\ writes = <<>>
        /\ hpc # "writing"
        /\ hpc = "responded" =>
               /\ ~response.isError
               /\ response.rescheduledCount = 0
               /\ response.rescheduled = <<>>

\* C13's case: a call with dryRun = false over a Today list of MaxTodos
\* to-dos, none of which the engine moved, has been answered.
C13_Witness ==
    /\ hpc = "responded"
    /\ pc = "done"
    /\ ~args.dryRun
    /\ Len(todos) = MaxTodos
    /\ result.rescheduled = <<>>
    /\ response.rescheduledCount = 0
    /\ writes = <<>>

\* The ids of the to-dos the Today-list read returned, and the ids in the
\* data of a written URL
IdsRead == { todos[k].id : k \in 1..Len(todos) }

IdsWritten(url) ==
    LET decoded == JSONparse(searchParamsGet(url, KeyData)).value
    IN  { decoded[n].id : n \in 1..Len(decoded) }

\* No write before the read has returned its list and the engine has gone
\* through it; one write at most; the ids written are among the ids read
WriteFollowsRead ==
    /\ Len(writes) <= 1
    /\ writes # <<>> =>
           /\ reads = 1
           /\ pc = "done"
           /\ IdsWritten(writes[1]) \subseteq IdsRead

\* C14 as it is worded: in every reschedule invocation the Today-list read
\* is issued exactly once and has completed successfully before any write
\* command is issued, the write is issued at most once, and the ids written
\* are among the ids that read returned.
C14_ReadThenWrite ==
    /\ hpc # "idle" => reads = 1
    /\ WriteFollowsRead

\* C14, amended: the same of every reschedule invocation for which a token
\* is resolvable; an invocation without one issues no read at all (and no
\* write).
C14_ReadThenWriteGivenToken ==
    /\ hpc # "idle" => reads = (IF NoTokenResolvable THEN 0 ELSE 1)
    /\ WriteFollowsRead

\* C14's case: an invocation has been answered after its one read and its
\* one write, of MaxTodos ids.
C14_Witness ==
    /\ hpc = "responded"
    /\ reads = 1
    /\ Len(writes) = 1
    /\ Cardinality(IdsWritten(writes[1])) = MaxTodos
    /\ ~response.isError

\* The events of the log
Logged == { log[k] : k \in 1..Len(log) }

\* C15: when the Today-list read fails, the invocation answers with an
\* error whose text is "Error fetching Today list"; the read is not tried
\* again, the engine evaluates nothing and no write command is issued,
\* with dryRun true as with dryRun false.
C15_FetchFailure ==
    "read rejected" \in Logged =>
        /\ hpc = "responded"
        /\ response.isError
        /\ response.text = "Error fetching Today list"
        /\ reads = 1
        /\ log = <<"read", "read rejected">>
        /\ pc = "idle"
        /\ writes = <<>>

\* C15's case: the read of a call with dryRun = true has failed and the
\* call has been answered.
C15_Witness ==
    /\ hpc = "responded"
    /\ args.dryRun
    /\ "read rejected" \in Logged
    /\ response.isError

\* C16: when the dispatch of a write command fails, the invocation answers
\* with an error that echoes the attempted command, its URL; the write is
\* not tried again and no compensating command follows it: the failed
\* write is the only one, and the last external call.
C16_WriteFailure ==
    "write rejected" \in Logged =>
        /\ hpc = "responded"
        /\ response.isError
        /\ Len(writes) = 1
        /\ response.attempted = writes[1]
        /\ log[Len(log)] = "write rejected"
        /\ Cardinality({ k \in 1..Len(log) : log[k] = "write" }) = 1

\* C16's case: the write of a reschedule call that moves MaxTodos to-dos
\* has failed and the call has been answered.
C16_Witness ==
    /\ hpc = "responded"
    /\ args.tool = "reschedule-distant-todos"
    /\ "write rejected" \in Logged
    /\ Len(result.rescheduled) = MaxTodos
    /\ response.attempted = writes[1]

\* What the call asked for cannot be served: a list name that is no list of
\* Things, or add-json data that is no JSON array
InvalidListName == args.tool = "get-todos" /\ args.list = Given(NonexistentList)

InvalidJsonData ==
    args.tool = "add-json" /\ args.data \in {NoJson, <<"{", "}">>}

\* C17: every tool invocation ends in one of two outcomes, a success result
\* or a structured error result with isError = true.  A failure of the read
\* or of the write surface, an invalid list name and invalid add-json data
\* all end in the error result, none in an exception that leaves the
\* handler (which would leave the call with no result); and nothing but
\* these and the missing token of a reschedule call ends in an error.
C17_StructuredOutcome ==
    hpc = "responded" =>
        /\ "isError" \in DOMAIN response
        /\ response.isError \in BOOLEAN
        /\ response.isError <=>
               \/ "read rejected" \in Logged
               \/ "write rejected" \in Logged
               \/ InvalidListName
               \/ InvalidJsonData
               \/ (args.tool = "reschedule-distant-todos"
                   /\ NoTokenResolvable)

\* C17's case: a get-todos call for a list that does not exist has been
\* answered with an error, the script not having been run.
C17_Witness ==
    /\ hpc = "responded"
    /\ InvalidListName
    /\ response.isError
    /\ response.cause = "Invalid list name"
    /\ reads = 0

\* C18: the report of a successful reschedule call with dryRun = true has
\* dryRun = true, a number as totalToday and an object (of counts by reason)
\* as skippedSummary, and it has no hint field, whether the engine made
\* decisions or none.
C18_DryRunReport ==
    (hpc = "responded" /\ args.dryRun /\ ~response.isError) =>
        /\ response.dryRun = TRUE
        /\ response.totalToday \in Nat
        /\ \A reason \in DOMAIN response.skippedSummary :
               response.skippedSummary[reason] \in Nat \ {0}
        /\ "hint" \notin DOMAIN response

\* C18's case: a dry run over MaxTodos to-dos, all of them skipped, has
\* been answered with its report.
C18_Witness ==
    /\ hpc = "responded"
    /\ args.dryRun
    /\ ~response.isError
    /\ response.totalToday = MaxTodos
    /\ response.rescheduledCount = 0
    /\ DOMAIN response.skippedSummary # {}

----------------------------------------------------------------------------
(* The date utilities *)

\* The number of calendar days from day a to day b, counted by stepping
\* from the later of the two back to the earlier
DayCount(a, b) ==
    LET Steps(early, late) ==
            CHOOSE n \in 0..(MaxOverdue + MaxDaysOut) : DaysBefore(late, n) = early
    IN  IF Earlier(b, a) THEN 0 - Steps(b, a) ELSE Steps(a, b)

\* C19: daysBetween is exact.  For all calendar days a and b, daysBetween of
\* their local midnights is the number of calendar days from a to b,
\* negative when b precedes a, so that daysBetween(b, a) = -daysBetween(a, b);
\* this across leap days, ends of years and daylight-saving shifts.
C19_DaysBetweenExact ==
    (args # <<>> /\ args.fn = "daysBetween") =>
        /\ result = DayCount(CalendarDay(args.from), CalendarDay(args.to))
        /\ daysBetween(parseDateOnly(tz, args.to), parseDateOnly(tz, args.from))
               = 0 - result

\* C20: the round trip.  For every well-formed string whose first ten
\* characters are YYYY-MM-DD, formatting the calendar day parsed from it
\* gives back these ten characters, whatever time of day or zone offset
\* follows them; and parsing the formatted form of a calendar day gives
\* back that day.
C20_RoundTrip ==
    /\ (args # <<>> /\ args.fn = "formatDateLocal(parseDateOnly)") =>
           result = SubSeq(args.isoString, 1, 10)
    /\ (args # <<>> /\ args.fn = "parseDateOnly(formatDateLocal)") =>
           result = args.date

\* C20's case: a string with a time of day and a zone offset of its own, of
\* the last day of February, has gone through the round trip in the host
\* whose zone has daylight-saving time.
C20_Witness ==
    /\ args # <<>>
    /\ args.fn = "formatDateLocal(parseDateOnly)"
    /\ Len(args.isoString) = 25
    /\ SubSeq(args.isoString, 6, 10) = <<"0", "2", "-", "2", "8">>
    /\ tz = USEastern2026
    /\ Len(result) = 10

----------------------------------------------------------------------------
(* The skip report's keys *)

\* C21: an empty Today list yields no decision, totalToday = 0 and a skip
\* report without keys; in general a reason is a key of the skip report only
\* if a to-do dealt with was skipped for it, and its count is then at least
\* 1: the report has no zero-count entry.
C21_EmptyInput ==
    /\ \A r \in DOMAIN skippedSummary :
           /\ skippedSummary[r] >= 1
           /\ \E k \in Processed : ~Decided(k) /\ FirstMatch(k) = r
    /\ (pc = "done" /\ todos = <<>>) =>
           /\ result.rescheduled = <<>>
           /\ DOMAIN result.skippedSummary = {}
           /\ result.totalToday = 0
    /\ pc = "done" =>
           \A r \in DOMAIN result.skippedSummary : result.skippedSummary[r] >= 1

\* C21's case: the engine has returned from an empty Today list.
C21_Witness ==
    /\ pc = "done"
    /\ todos = <<>>
    /\ result.rescheduled = <<>>
    /\ result.skippedSummary = <<>>
    /\ result.totalToday = 0

----------------------------------------------------------------------------
(* The token of a write *)

\* The token the claims expect a call to use, as an optional string: the
\* authToken argument if it is supplied and not empty, else the value of
\* THINGS_AUTH_TOKEN if it is set and not empty, else none
ExpectedToken ==
    IF \E t \in args.authToken : t # <<>> THEN args.authToken
    ELSE IF \E t \in envToken : t # <<>> THEN envToken
    ELSE Omitted

\* The auth-token parameter of a URL, as an optional string
TokenOfURL(url) ==
    IF searchParamsGet(url, KeyAuthToken) = Null THEN Omitted
    ELSE Given(searchParamsGet(url, KeyAuthToken))

\* C22: the token used for a write of reschedule-distant-todos, update-todo
\* or update-project is the authToken argument whenever it is supplied and
\* not empty, otherwise the process-wide THINGS_AUTH_TOKEN; the fallback
\* never overrides a supplied argument, and when both are absent or empty
\* no token is resolved.
C22_TokenResolution ==
    (args # <<>> /\ args.tool \in AuthRequiring) =>
        \A n \in 1..Len(writes) : TokenOfURL(writes[n]) = ExpectedToken

----------------------------------------------------------------------------
(* Clearing a field of a to-do *)

\* C23: when an update-todo call passes notes = "" (or deadline = ""), the
\* URL built by buildUpdateTodoURL carries the notes (deadline) parameter
\* with an empty value, so that the field is cleared; the parameter is absent
\* from the URL only when the caller did not supply it.
C23_ClearOnEmptyString ==
    (args # <<>> /\ args.tool = "update-todo" /\ writes # <<>>) =>
        LET url == writes[Len(writes)]
        IN  /\ args.notes = Given(<<>>) => searchParamsGet(url, KeyNotes) = <<>>
            /\ args.deadline = Given(<<>>) =>
                   searchParamsGet(url, KeyDeadline) = <<>>
            /\ searchParamsGet(url, KeyNotes) = Null => args.notes = Omitted
            /\ searchParamsGet(url, KeyDeadline) = Null =>
                   args.deadline = Omitted

----------------------------------------------------------------------------
(* The parameters buildURL emits *)

\* The positions in a call's urlParams of the entries whose value is
\* neither undefined nor the empty string
Remaining ==
    { k \in 1..Len(args.urlParams) :
        args.urlParams[k][2] # {} /\ args.urlParams[k][2] # {<<>>} }

\* The text the claims expect after key= for a value
ExpectedText(value) ==
    IF value = JsTrue THEN <<"t", "r", "u", "e">>
    ELSE IF value = JsFalse THEN <<"f", "a", "l", "s", "e">>
    ELSE encodeURIComponent(value)

----------------------------------------------------------------------------
(* The list of get-todos *)

\* A get-todos call has been answered
GetTodosAnswered ==
    args # <<>> /\ args.tool = "get-todos" /\ hpc = "responded"

\* The answer is the error of an invalid list name, made without a read
RejectedAsInvalid ==
    /\ response.isError
    /\ response.cause = "Invalid list name"
    /\ reads = 0
    /\ log = <<>>

\* The list was read: one read was issued, and the answer is the to-dos it
\* returned or the error of the read, never that of an invalid name
ListWasRead ==
    /\ reads = 1
    /\ log \in {<<"read", "read resolved">>, <<"read", "read rejected">>}
    /\ response.isError => response.cause # "Invalid list name"

\* C25, as stated: a list name is accepted if and only if, normalised to a
\* first letter in upper case and the rest in lower case, it is one of the
\* built-in lists; any other name yields an error result containing
\* "Invalid list name", and no external read is executed for it.
C25_ListValidation ==
    (GetTodosAnswered /\ args.list # Omitted) =>
        LET listName == CHOOSE l \in args.list : TRUE
        IN  IF normalizedList(listName) \in validLists
            THEN ListWasRead
            ELSE RejectedAsInvalid

\* C25, amended: the same of every list name but the empty string; a call
\* whose list is the empty string or is left out (and that names no
\* project, area or tag) reads the Today list.
C25_ListValidationOfNonEmpty ==
    GetTodosAnswered =>
        IF args.list = Omitted \/ args.list = Given(<<>>)
        THEN ListWasRead
        ELSE LET listName == CHOOSE l \in args.list : TRUE
             IN  IF normalizedList(listName) \in validLists
                 THEN ListWasRead
                 ELSE RejectedAsInvalid

\* C25's case: a call with list = "NonexistentList" has been answered with the
\* error of an invalid list name, no read having been issued.
C25_Witness ==
    /\ GetTodosAnswered
    /\ args.list = Given(NonexistentList)
    /\ response.isError
    /\ response.cause = "Invalid list name"
    /\ reads = 0

----------------------------------------------------------------------------
(* Two requests at a time *)

\* Request r is in progress: its read has been issued and it has not yet
\* answered
InProgress(r) == hpc[r] \in {"fetching", "evaluating", "writing"}

\* Request r is between its read and its write
BetweenReadAndWrite(r) == hpc[r] \in {"fetching", "evaluating"}

\* The positions in the log of the entries of request r with this event
Entries(r, event) ==
    { n \in 1..Len(log) : log[n].request = r /\ log[n].event = event }

\* Request q has issued a write made from the snapshot that request r also
\* wrote from, read before r's write was issued, and both update one to-do
WroteFromSameStaleSnapshot(r, q) ==
    \E wr \in Entries(r, "write"), wq \in Entries(q, "write"),
       sr \in Entries(r, "read resolved"), sq \in Entries(q, "read resolved"),
       rq \in Entries(q, "read") :
        /\ wr < wq
        /\ rq < wr
        /\ log[sr].data = log[sq].data
        /\ IdsWritten(log[wr].data) \cap IdsWritten(log[wq].data) # {}

----------------------------------------------------------------------------
(* Which to-dos are rescheduled *)

\* The larger of two numbers
Max(a, b) == IF a >= b THEN a ELSE b

\* The position in the Today list of the to-do of a decision
PositionOf(decision) == CHOOSE k \in 1..Len(todos) : todos[k].id = decision.id

\* C27: for every today, daysThreshold and bufferDays, an open to-do with a
\* deadline whose activation date is absent or not today is rescheduled if
\* and only if daysUntilDue >= max(daysThreshold, bufferDays + 1); every
\* decision records that daysUntilDue, has
\* daysBetween(today, newWhen) = daysUntilDue - bufferDays, and its newWhen
\* is never later than the day of the deadline.
C27_ExactCharacterisation ==
    /\ \A k \in Processed :
           Unprotected(k) =>
               (Decided(k) <=> DaysOut(k) >= Max(Threshold, Buffer + 1))
    /\ \A n \in 1..Len(rescheduled) :
           LET decision == rescheduled[n]
           IN  /\ decision.daysUntilDue = DaysOut(PositionOf(decision))
               /\ daysBetween(todayMidnight, parseDateOnly(tz, decision.newWhen))
                      = decision.daysUntilDue - Buffer
               /\ ~Earlier(CalendarDay(decision.dueDate),
                           CalendarDay(decision.newWhen))

----------------------------------------------------------------------------
(* Calls on later days *)

DayAfter(day) ==
    IF day[3] < MonthLength(day[1], day[2]) THEN <<day[1], day[2], day[3] + 1>>
    ELSE IF day[2] < 12 THEN <<day[1], day[2] + 1, 1>>
    ELSE <<day[1] + 1, 1, 1>>

\* The calendar day n days after day
RECURSIVE DaysAfter(_, _)
DaysAfter(day, n) == IF n = 0 THEN day ELSE DaysAfter(DayAfter(day), n - 1)

\* The host, and the number of days its clock has moved on since the first
\* call
FirstCallHost ==
    CHOOSE h \in Hosts :
        h.tz = tz /\ \E n \in 0..(MaxDaysOut + 1) : clock = h.clock + n * (60 * 24)

DaysLater == (clock - FirstCallHost.clock) \div (60 * 24)

\* The calendar day the host's user calls today, on the day of the call
TodayLater == DaysAfter(FirstCallHost.today, DaysLater)

----------------------------------------------------------------------------
(* The day of a date that went through the Todo Source *)

\* C29: for a to-do whose deadline or activation date in the application is
\* the local calendar day D, the calendar day the engine derives from the
\* string the Todo Source returns (serialised with toISOString, in UTC, and
\* cut to its first ten characters) is D, on every host whatever the offset
\* of its time zone.
C29_CalendarDayFidelity ==
    (args # <<>> /\ args.fn = "parseDateOnly(toISOString)") =>
        CalendarDay(result) = CalendarDay(args.day)

----------------------------------------------------------------------------
(* The decisions and the Today list *)

\* What the to-do at position k alone determines of its decision
OwnDecision(k) ==
    [id |-> todos[k].id, name |-> todos[k].name,
     oldWhen |-> IF todos[k].activationDate = Null THEN Null
                 ELSE SubSeq(todos[k].activationDate, 1, 10),
     dueDate |-> SubSeq(todos[k].dueDate, 1, 10),
     daysUntilDue |-> DaysOut(k)]

\* C30: the decisions are a sub-sequence of the Today list: every decision
\* has the id and the name of a to-do of the list, decisions come in the
\* order of their to-dos, a to-do has one decision at most, and whether a
\* to-do is decided, and how, depends on its own fields, the options and
\* today alone, not on the other to-dos or on its place in the list.
C30_OrderPreservingSubsequence ==
    /\ \A n \in 1..Len(rescheduled) :
           \E k \in Processed :
               /\ rescheduled[n].id = todos[k].id
               /\ rescheduled[n].name = todos[k].name
               /\ FirstMatch(k) = <<>>
               /\ [f \in DOMAIN OwnDecision(k) |-> rescheduled[n][f]]
                      = OwnDecision(k)
               /\ CalendarDay(rescheduled[n].newWhen) = TargetDay(k)
    /\ \A m, n \in 1..Len(rescheduled) :
           m < n => PositionOf(rescheduled[m]) < PositionOf(rescheduled[n])
    /\ \A k \in Processed :
           /\ Cardinality({ n \in 1..Len(rescheduled) :
                              rescheduled[n].id = todos[k].id }) <= 1
           /\ Decided(k) <=> FirstMatch(k) = <<>>
    /\ pc = "done" => result.rescheduled = rescheduled

\* C30's case: both to-dos of a list of two have a decision, the first
\* to-do's first.
C30_Witness ==
    /\ pc = "done"
    /\ Len(todos) = 2
    /\ Len(result.rescheduled) = 2
    /\ result.rescheduled[1].id = todos[1].id
    /\ result.rescheduled[2].id = todos[2].id
    /\ todos[1].activationDate # todos[2].activationDate

====
